---------------------------- MODULE Spec2Model ----------------------------
(***************************************************************************)
(* A model of the AskDelphi client: the token cache and token authority    *)
(* (src/src/api_client/auth.py), the API session with its one-shot         *)
(* re-authentication (src/src/api_client/session.py), the tree importer    *)
(* (src/src/importer/importer.py) and the cascading delete                 *)
(* (src/src/api_client/topic.py).                                          *)
(*                                                                         *)
(* Time is counted in seconds from an arbitrary origin.  A Python string   *)
(* that the code only passes on is a TLA+ string, with "None" for Python's *)
(* None.  An API token, whose text the code takes apart, is the sequence   *)
(* of its dot-separated segments; None is the empty sequence.              *)
(***************************************************************************)
EXTENDS Integers, Sequences, FiniteSets, TLC

VARIABLES
    now,         \* time.time()
    cache,       \* AskDelphiAuth.cache : TokenCache
    cache_file,  \* the token cache file on disk
    portal_code, \* AskDelphiAuth.portal_code
    sess,        \* AskDelphiSession: auth_manager, session_token, token_expiry
    net,         \* the HTTP requests of the last call, in the order sent
    last,        \* the last call made on the component and how it ended
    imp,         \* a run of DigitalCoachImporter.import_topics
    del,         \* a run of TopicService.delete_topic_recursive
    mapper,      \* a call on a DigitalCoachMapper
    cfg          \* a construction of AskDelphiAuth or AskDelphiSession

authVars == <<now, cache, cache_file, portal_code, sess, net, last>>
treeVars == <<imp, del, mapper, cfg>>
vars == <<now, cache, cache_file, portal_code, sess, net, last, imp, del,
         mapper, cfg>>

-----------------------------------------------------------------------------
(* Program constants, src/src/api_client/auth.py *)

TOKEN_EXPIRY_BUFFER == 300
DEFAULT_TOKEN_EXPIRY == 3600

(* Bounds of the model *)

\* the clock stops here
MaxTime == 4301

\* The instants at which the model looks at the clock: the start, and the
\* seconds around the validity boundary of a token with the default
\* lifetime that was set at the start or a second later.
Instants == {t \in {1000, 1001, 4299, 4300, 4301, 4302, 4303} : t <= MaxTime}

-----------------------------------------------------------------------------
(* Python values *)

None == "None"

\* bool(s) of an optional string
Truthy(s) == s \notin {None, ""}

\* Python None where an API token is expected, and the empty string
NoToken == << >>
EmptyToken == << [txt |-> "", dec |-> [k |-> "notjson", exp |-> [k |-> "absent", v |-> 0]]] >>

\* bool(token) of an optional API token
TokenTruthy(token) == token \notin {NoToken, EmptyToken}

-----------------------------------------------------------------------------
(* API tokens.  A segment is its first characters (txt) and what          *)
(* base64.urlsafe_b64decode and json.loads make of it (dec):               *)
(*   notb64   the decoder raises binascii.Error                            *)
(*   notjson  the bytes are no JSON document                               *)
(*   list     a JSON document that is no object                            *)
(*   obj      a JSON object; exp is its "exp" member:                      *)
(*            absent, num (a number datetime can represent, value v),      *)
(*            big (a number beyond datetime's range, for instance a        *)
(*            timestamp in milliseconds; v stands in for it), null, str    *)

NoExp == [k |-> "absent", v |-> 0]

Seg(txt, k, exp) == [txt |-> txt, dec |-> [k |-> k, exp |-> exp]]

\* a signed token "eyJ<header>.<payload>.<signature>" whose payload is a JSON object
Jwt(exp, sig) == << Seg("eyJ", "notjson", NoExp), Seg("pay", "obj", exp), Seg(sig, "notb64", NoExp) >>

\* the "exp" members the server's tokens carry
ExpClaims ==
    { [k |-> "num", v |-> 900], [k |-> "num", v |-> 1300], [k |-> "num", v |-> 1301],
      [k |-> "num", v |-> 9000], [k |-> "big", v |-> 2000000000],
      [k |-> "null", v |-> 0], [k |-> "str", v |-> 0], NoExp }

\* every shape of token string set_api_token can be handed
TokenStrings ==
    { Jwt(e, "sig") : e \in ExpClaims }
    \cup { EmptyToken,
           << Seg("abc", "notjson", NoExp) >>,
           << Seg("eyJ", "notjson", NoExp), Seg("pay", "notb64", NoExp), Seg("sig", "notb64", NoExp) >>,
           << Seg("eyJ", "notjson", NoExp), Seg("pay", "notjson", NoExp), Seg("sig", "notb64", NoExp) >>,
           << Seg("eyJ", "notjson", NoExp), Seg("pay", "list", NoExp) >> }

-----------------------------------------------------------------------------
(* TokenCache *)

\* TokenCache.__init__
TokenCacheInit ==
    [access_token |-> None, refresh_token |-> None, publication_url |-> None,
     api_token |-> NoToken, api_token_expiry |-> 0]

is_api_token_valid_le(c, t) ==
    TokenTruthy(c.api_token) /\ t <= c.api_token_expiry - TOKEN_EXPIRY_BUFFER

\* TokenCache.is_api_token_valid: the truth value of what it returns
is_api_token_valid(c, t) ==
    TokenTruthy(c.api_token) /\ t < c.api_token_expiry - TOKEN_EXPIRY_BUFFER

\* The try block of set_api_token: the expiry it assigns, or the exception
\* it raises.  datetime.fromtimestamp in the debug message is evaluated
\* whatever the log level.
ParseExpiry(token, t) ==
    IF Len(token) < 2 THEN [exc |-> "IndexError", expiry |-> 0]
    ELSE LET d == token[2].dec IN
         IF d.k = "notb64" THEN [exc |-> "binascii.Error", expiry |-> 0]
         ELSE IF d.k = "notjson" THEN [exc |-> "JSONDecodeError", expiry |-> 0]
         ELSE IF d.k = "list" THEN [exc |-> "AttributeError", expiry |-> 0]
         ELSE IF d.exp.k = "absent" THEN [exc |-> "none", expiry |-> t + DEFAULT_TOKEN_EXPIRY]
         ELSE IF d.exp.k \in {"null", "str"} THEN [exc |-> "TypeError", expiry |-> 0]
         ELSE IF d.exp.k = "big" THEN [exc |-> "ValueError", expiry |-> 0]
         ELSE [exc |-> "none", expiry |-> d.exp.v]

\* `except Exception` of set_api_token
Caught(exc) == exc # "none"

\* TokenCache.set_api_token: the cache afterwards, and the exception that escapes
set_api_token(c, token, t) ==
    LET r == ParseExpiry(token, t) IN
    IF r.exc = "none"
    THEN [cache |-> [c EXCEPT !.api_token = token, !.api_token_expiry = r.expiry],
          exc |-> "none"]
    ELSE IF Caught(r.exc)
    THEN [cache |-> [c EXCEPT !.api_token = token,
                              !.api_token_expiry = t + DEFAULT_TOKEN_EXPIRY],
          exc |-> "none"]
    ELSE [cache |-> [c EXCEPT !.api_token = token], exc |-> r.exc]

\* The cache file.  state is what the path holds: "missing", "object" (the
\* text of a JSON object), "notdict" (JSON text of another kind, such as a
\* list) or "malformed" (not JSON); data is the members of the object, each
\* a JSON value or absent; writable is whether write_text succeeds.
JsonNull == [t |-> "null", s |-> ""]
JsonAbsent == [t |-> "absent", s |-> ""]
JsonString(s) == [t |-> "string", s |-> s]

\* an empty string is written as null
dumps_truthy(v) == IF Truthy(v) THEN JsonString(v) ELSE JsonNull

\* json.dumps of an optional string
dumps(v) == IF v = None THEN JsonNull ELSE JsonString(v)

\* json.loads(...).get(key): the string, or None for null or a missing key
get(member) == IF member.t = "string" THEN member.s ELSE None

\* TokenCache.save: the file afterwards; a failed write is logged and ignored
save(c, file, t) ==
    IF file.writable
    THEN [state |-> "object",
          data |-> [access_token |-> dumps(c.access_token),
                    refresh_token |-> dumps(c.refresh_token),
                    publication_url |-> dumps(c.publication_url)],
          writable |-> TRUE]
    ELSE file

\* the fields are assigned before the text is parsed
load_eager(c, file) ==
    IF file.state = "object"
    THEN [cache |-> [c EXCEPT !.access_token = get(file.data.access_token),
                              !.refresh_token = get(file.data.refresh_token),
                              !.publication_url = get(file.data.publication_url)],
          ret |-> TRUE]
    ELSE IF file.state = "missing" THEN [cache |-> c, ret |-> FALSE]
    ELSE [cache |-> [c EXCEPT !.access_token = None, !.refresh_token = None,
                              !.publication_url = None],
          ret |-> FALSE]

\* TokenCache.load: the cache afterwards and the value returned.  For a path
\* that does not exist the method falls through to `return False`; for text
\* that is not JSON json.loads raises, for JSON that is not an object
\* data.get raises, both before the first field is assigned.
load(c, file) ==
    IF file.state = "object"
    THEN [cache |-> [c EXCEPT !.access_token = get(file.data.access_token),
                              !.refresh_token = get(file.data.refresh_token),
                              !.publication_url = get(file.data.publication_url)],
          ret |-> TRUE]
    ELSE [cache |-> c, ret |-> FALSE]

-----------------------------------------------------------------------------
(* A call in progress.  Every method below maps the context it is entered  *)
(* with to the set of contexts it can end with, one for every answer the   *)
(* servers can give: cache, file and sess are the objects' state, net the  *)
(* requests sent so far, exc the exception that is propagating ("none":    *)
(* the method returned), tok, body and flag the value returned, status and *)
(* body the content of an AskDelphiAuthError.                              *)

Ctx(c, file, s) ==
    [cache |-> c, file |-> file, sess |-> s, net |-> << >>, exc |-> "none",
     tok |-> NoToken, body |-> None, flag |-> FALSE, status |-> 0]

Raise(c, e) == [c EXCEPT !.exc = e]

\* the data of an answer of the portal, for the requests to other servers
NoAnswer ==
    [kind |-> "none", accessToken |-> None, refreshToken |-> None,
     url |-> [scheme |-> "", netloc |-> "", path |-> ""]]

\* an HTTP request with its bearer (bearer: an opaque token, tok: an API
\* token) and the status and body of its response (status 0: no response);
\* for the fetch of the editing API token, tok is the token in the response
\* and body "text/html" when that is its Content-Type
Sent(c, ep, method, bearer, tok, status, body) ==
    [c EXCEPT !.net = Append(@, [ep |-> ep, method |-> method, bearer |-> bearer,
                                 tok |-> tok, status |-> status, body |-> body,
                                 url |-> << >>, data |-> NoAnswer])]

-----------------------------------------------------------------------------
(* The servers' answers *)

\* tokens the EditingApiToken endpoint hands out; the last is no JWT
FetchTokens ==
    { Jwt([k |-> "num", v |-> 9000], "sigA"), Jwt(NoExp, "sigB"),
      Jwt([k |-> "num", v |-> 1300], "sigC"), << Seg("<ht", "notjson", NoExp) >> }

\* GET {publication_url}/api/token/EditingApiToken: no answer, a refusal,
\* a page with Content-Type text/html (whatever its text), or a token
FetchResponses ==
    { [kind |-> k, token |-> NoToken] : k \in {"conn", "http"} }
    \cup { [kind |-> "html", token |-> Jwt([k |-> "num", v |-> 9000], "sigA")] }
    \cup { [kind |-> "ok", token |-> tk] : tk \in FetchTokens }

\* GET {publication_url}/api/token/refresh
RefreshResponses ==
    { [kind |-> "conn", token |-> None, refresh |-> None],
      [kind |-> "http", token |-> None, refresh |-> None],
      [kind |-> "ok", token |-> "acc2", refresh |-> "ref2"],
      [kind |-> "ok", token |-> None, refresh |-> None] }

NoUrl == [scheme |-> "", netloc |-> "", path |-> ""]

\* GET {PORTAL_SERVER}/api/session/registration
ExchangeResponses ==
    { [kind |-> "http", accessToken |-> None, refreshToken |-> None, url |-> NoUrl],
      [kind |-> "ok", accessToken |-> "acc1", refreshToken |-> "ref1",
       url |-> [scheme |-> "https", netloc |-> "pub.example", path |-> "/start"]],
      [kind |-> "ok", accessToken |-> None, refreshToken |-> "ref1",
       url |-> [scheme |-> "https", netloc |-> "pub.example", path |-> "/start"]],
      [kind |-> "ok", accessToken |-> "acc1", refreshToken |-> None, url |-> NoUrl] }

\* the CMS's answer to a request; status 0: the connection failed
CmsResponses ==
    { [status |-> 200, body |-> "result"], [status |-> 401, body |-> "unauthorized"],
      [status |-> 500, body |-> "error"], [status |-> 0, body |-> None] }

\* POST {base_url}/auth/session
SessionResponses ==
    { [status |-> 500, sessionToken |-> None, expiresIn |-> 0],
      [status |-> 200, sessionToken |-> "st1", expiresIn |-> 0],
      [status |-> 200, sessionToken |-> "st2", expiresIn |-> 60],
      [status |-> 200, sessionToken |-> None, expiresIn |-> 0] }

-----------------------------------------------------------------------------
(* AskDelphiAuth *)

\* str.startswith(JWT_PREFIX)
StartsWithJwtPrefix(token) == Len(token) >= 1 /\ token[1].txt = "eyJ"

\* the same without the look at the Content-Type
_get_api_token_response_any_type(c, r, t) ==
    IF r.kind = "conn" THEN Raise(c, "RequestFailed")
    ELSE IF r.kind = "http" THEN Raise(c, "HttpError")
    ELSE IF ~StartsWithJwtPrefix(r.token) THEN Raise(c, "InvalidTokenFormat")
    ELSE LET st == set_api_token(c.cache, r.token, t) IN
         [c EXCEPT !.cache = st.cache, !.exc = st.exc]

\* _get_api_token from the response on (lines 526-569)
_get_api_token_response(c, r, t) ==
    IF r.kind = "conn" THEN Raise(c, "RequestFailed")
    ELSE IF r.kind = "http" THEN Raise(c, "HttpError")
    ELSE IF r.kind = "html" THEN Raise(c, "HtmlReceived")
    ELSE IF ~StartsWithJwtPrefix(r.token) THEN Raise(c, "InvalidTokenFormat")
    ELSE LET st == set_api_token(c.cache, r.token, t) IN
         [c EXCEPT !.cache = st.cache, !.exc = st.exc]

\* AskDelphiAuth._get_api_token
_get_api_token(c, t) ==
    IF ~Truthy(c.cache.access_token) \/ ~Truthy(c.cache.publication_url)
    THEN {Raise(c, "NoAccessToken")}
    ELSE { _get_api_token_response(
               Sent(c, "EditingApiToken", "GET", c.cache.access_token, r.token,
                    IF r.kind = "conn" THEN 0 ELSE IF r.kind = "http" THEN 401 ELSE 200,
                    IF r.kind = "html" THEN "text/html" ELSE None),
               r, t) : r \in FetchResponses }

\* AskDelphiAuth._refresh_tokens
_refresh_tokens(c, t) ==
    IF ~Truthy(c.cache.refresh_token) \/ ~Truthy(c.cache.publication_url)
    THEN {Raise(c, "NoRefreshToken")}
    ELSE { LET s == Sent(c, "refresh", "GET", c.cache.access_token, NoToken,
                         IF r.kind = "conn" THEN 0 ELSE IF r.kind = "http" THEN 500 ELSE 200, None)
           IN IF r.kind = "conn" THEN Raise(s, "RequestFailed")
              ELSE IF r.kind = "http" THEN Raise(s, "RefreshFailed")
              ELSE LET c2 == [s.cache EXCEPT
                                 !.access_token = IF Truthy(r.token) THEN r.token ELSE @,
                                 !.refresh_token = IF Truthy(r.refresh) THEN r.refresh ELSE @]
                   IN [s EXCEPT !.cache = c2, !.file = save(c2, s.file, t)]
           : r \in RefreshResponses }

\* the token is fetched although the cached one is valid
get_api_token_refetching(c, t) ==
    { IF y.exc = "none" THEN [y EXCEPT !.tok = y.cache.api_token] ELSE y
      : y \in _get_api_token(c, t) }

\* a failure of the refresh is raised
get_api_token_raising(c, t) ==
    IF is_api_token_valid(c.cache, t)
    THEN {[c EXCEPT !.tok = c.cache.api_token]}
    ELSE LET refreshed ==
                 IF Truthy(c.cache.refresh_token) /\ ~is_api_token_valid(c.cache, t)
                 THEN _refresh_tokens(c, t)
                 ELSE {c}
         IN UNION { IF x.exc # "none" THEN {x}
                    ELSE { IF y.exc = "none" THEN [y EXCEPT !.tok = y.cache.api_token] ELSE y
                           : y \in _get_api_token(x, t) }
                    : x \in refreshed }

\* AskDelphiAuth.get_api_token; tok is the token returned
get_api_token(c, t) ==
    IF is_api_token_valid(c.cache, t)
    THEN {[c EXCEPT !.tok = c.cache.api_token]}
    ELSE LET refreshed ==
                 IF Truthy(c.cache.refresh_token) /\ ~is_api_token_valid(c.cache, t)
                 THEN { [x EXCEPT !.exc = "none"] : x \in _refresh_tokens(c, t) }
                 ELSE {c}
         IN UNION { { IF y.exc = "none" THEN [y EXCEPT !.tok = y.cache.api_token] ELSE y
                      : y \in _get_api_token(x, t) }
                    : x \in refreshed }

\* the cached tokens are tried with get_api_token, which refreshes first
_try_cached_tokens_refreshing(c, t) ==
    IF ~(Truthy(c.cache.access_token) /\ Truthy(c.cache.publication_url))
    THEN {[c EXCEPT !.flag = FALSE]}
    ELSE { IF y.exc = "none" THEN [y EXCEPT !.flag = TRUE]
           ELSE [y EXCEPT !.exc = "none", !.flag = FALSE]
           : y \in get_api_token(c, t) }

\* AskDelphiAuth._try_cached_tokens; flag is the value returned
_try_cached_tokens(c, t) ==
    IF ~(Truthy(c.cache.access_token) /\ Truthy(c.cache.publication_url))
    THEN {[c EXCEPT !.flag = FALSE]}
    ELSE { IF y.exc = "none" THEN [y EXCEPT !.flag = TRUE]
           ELSE [y EXCEPT !.exc = "none", !.flag = FALSE]
           : y \in _get_api_token(c, t) }

\* AskDelphiAuth._exchange_portal_code; the context and the data returned
_exchange_portal_code(c, code) ==
    { [ctx |-> LET s == Sent(c, "registration", "GET", code, NoToken,
                             IF r.kind = "http" THEN 401 ELSE 200, None)
                   a == [s EXCEPT !.net[Len(s.net)].data = r]
               IN IF r.kind = "http" THEN Raise(a, "ExchangeFailed") ELSE a,
       data |-> r]
      : r \in ExchangeResponses }

\* the URL is kept with its path
WholeUrl(url) == url.scheme \o "://" \o url.netloc \o url.path

\* urlparse(full_url): f"{parsed.scheme}://{parsed.netloc}"
SchemeAndHost(url) == url.scheme \o "://" \o url.netloc

\* AskDelphiAuth._extract_and_save_tokens
\* the same without the save: the tokens stay in memory until a later save
_extract_tokens_unsaved(c, data, t) ==
    LET c2 == [c.cache EXCEPT
                  !.access_token = data.accessToken,
                  !.refresh_token = data.refreshToken,
                  !.publication_url = IF data.url # NoUrl THEN SchemeAndHost(data.url)
                                      ELSE ""]
        s == [c EXCEPT !.cache = c2]
    IN IF ~Truthy(c2.access_token) THEN Raise(s, "NoAccessTokenInResponse")
       ELSE IF ~Truthy(c2.publication_url) THEN Raise(s, "NoUrlInResponse")
       ELSE s

_extract_and_save_tokens(c, data, t) ==
    LET c2 == [c.cache EXCEPT
                  !.access_token = data.accessToken,
                  !.refresh_token = data.refreshToken,
                  !.publication_url = IF data.url # NoUrl THEN SchemeAndHost(data.url)
                                      ELSE ""]
        s == [c EXCEPT !.cache = c2]
    IN IF ~Truthy(c2.access_token) THEN Raise(s, "NoAccessTokenInResponse")
       ELSE IF ~Truthy(c2.publication_url) THEN Raise(s, "NoUrlInResponse")
       ELSE [s EXCEPT !.file = save(c2, s.file, t)]

\* AskDelphiAuth.authenticate(portal_code=arg) of an object whose portal_code is own
\* a portal code, when there is one, is used before the cached tokens
authenticate_code_first(c, arg, own, t) ==
    LET code == IF Truthy(arg) THEN arg ELSE own IN
    IF ~Truthy(code)
    THEN UNION { IF x.flag THEN {x} ELSE {Raise(x, "ValueError")}
                 : x \in _try_cached_tokens(c, t) }
    ELSE UNION { IF d.ctx.exc # "none" THEN {d.ctx}
                 ELSE LET e == _extract_and_save_tokens(d.ctx, d.data, t) IN
                      IF e.exc # "none" THEN {e}
                      ELSE { IF f.exc = "none" THEN [f EXCEPT !.flag = TRUE]
                             ELSE f : f \in _get_api_token(e, t) }
                 : d \in _exchange_portal_code(c, code) }

authenticate(c, arg, own, t) ==
    UNION { IF x.flag THEN {x}
            ELSE LET code == IF Truthy(arg) THEN arg ELSE own IN
                 IF ~Truthy(code) THEN {Raise(x, "ValueError")}
                 ELSE UNION { IF d.ctx.exc # "none" THEN {d.ctx}
                              ELSE LET e == _extract_and_save_tokens(d.ctx, d.data, t) IN
                                   IF e.exc # "none" THEN {e}
                                   ELSE { IF f.exc = "none" THEN [f EXCEPT !.flag = TRUE]
                                          ELSE f : f \in _get_api_token(e, t) }
                              : d \in _exchange_portal_code(x, code) }
            : x \in _try_cached_tokens(c, t) }

-----------------------------------------------------------------------------
(* AskDelphiSession *)

\* data.get("expiresIn", 3600) of _refresh_token
SESSION_EXPIRES_IN == 3600

\* requests.Response.ok
Ok(status) == status >= 200 /\ status < 400

\* A path is the sequence of its pieces between the slashes.  The services
\* call the session with paths of this shape (topic.py, checkout.py,
\* parts.py, relations.py): v1/tenant/{tenantId}/project/{projectId}/acl/{aclEntryId}/topic/...
Placeholders == {"{tenantId}", "{projectId}", "{aclEntryId}"}
TopicPath ==
    << "v1", "tenant", "{tenantId}", "project", "{projectId}", "acl", "{aclEntryId}", "topic" >>

\* str.replace(old, new) on a path whose placeholders are whole pieces
Replace(path, old, new) == [i \in DOMAIN path |-> IF path[i] = old THEN new ELSE path[i]]

\* url_path of _request (lines 171-180): the placeholders are replaced only
\* when tenant, project_id and acl are all truthy
url_path(s, path) ==
    IF Truthy(s.tenant) /\ Truthy(s.project_id) /\ s.acl # << >>
    THEN Replace(Replace(Replace(path, "{tenantId}", s.tenant),
                         "{projectId}", s.project_id),
                 "{aclEntryId}", s.acl[1])
    ELSE path

\* url = f"{base}{url_path}" (lines 182-185)
Url(s, path) == <<s.base_url>> \o url_path(s, path)

\* AskDelphiSession._refresh_token; requests.post raises MissingSchema for
\* the URL "None/auth/session" of a session without base_url; the body
\* recorded for the request is the sessionToken of the answer
_refresh_token(c, t) ==
    IF c.sess.base_url = None THEN {Raise(c, "MissingSchema")} ELSE
    { LET s == Sent(c, "auth/session", "POST", None, NoToken, r.status, r.sessionToken) IN
      IF ~Ok(r.status)
      THEN [s EXCEPT !.exc = "AskDelphiAuthError", !.status = r.status]
      ELSE IF r.sessionToken = None THEN Raise(s, "KeyError")
      ELSE [s EXCEPT !.sess.session_token = r.sessionToken,
                     !.sess.token_expiry =
                         t + (IF r.expiresIn = 0 THEN SESSION_EXPIRES_IN ELSE r.expiresIn)]
      : r \in SessionResponses }

\* requests.request(method, url, json=payload, headers=headers) with the
\* Authorization header of the mode, answered by r
Request(c, method, r) ==
    LET s == IF c.sess.auth_manager
             THEN Sent(c, "cms", method, None, c.tok, r.status, r.body)
             ELSE Sent(c, "cms", method, c.sess.session_token, NoToken, r.status, r.body)
    IN [s EXCEPT !.net[Len(s.net)].url = Url(c.sess, TopicPath)]

\* _request from `if not response.ok` on (lines 210-215), r the last response
_request_result(c, r) ==
    IF r.status = 0 THEN Raise(c, "ConnectionError")
    ELSE IF ~Ok(r.status)
    THEN [c EXCEPT !.exc = "AskDelphiAuthError", !.status = r.status, !.body = r.body]
    ELSE [c EXCEPT !.body = r.body]

\* the same with the header left as it was
_request_reauth_stale(c, own, t) ==
    IF c.sess.auth_manager
    THEN UNION { IF a.exc # "none" THEN {a}
                 ELSE { IF g.exc # "none" THEN g ELSE [g EXCEPT !.tok = c.tok]
                        : g \in get_api_token(a, t) }
                 : a \in authenticate(c, None, own, t) }
    ELSE { IF g.exc # "none" THEN g
           ELSE [g EXCEPT !.sess.session_token = c.sess.session_token]
           : g \in _refresh_token(c, t) }

\* the re-authentication of _request (lines 201-207)
_request_reauth(c, own, t) ==
    IF c.sess.auth_manager
    THEN UNION { IF a.exc # "none" THEN {a} ELSE get_api_token(a, t)
                 : a \in authenticate(c, None, own, t) }
    ELSE _refresh_token(c, t)

_request_retry_again(c, method, r1, own, t) ==
    IF r1.status # 401 THEN {_request_result(c, r1)}
    ELSE UNION { IF x.exc # "none" THEN {x}
                 ELSE UNION { IF r2.status # 401 THEN {_request_result(Request(x, method, r2), r2)}
                              ELSE { _request_result(Request(Request(x, method, r2), method, r3), r3)
                                     : r3 \in CmsResponses }
                              : r2 \in CmsResponses }
                 : x \in _request_reauth(c, own, t) }

\* every failed response is taken for an expired token
_request_reauth_on_error(c, method, r1, own, t) ==
    IF Ok(r1.status) \/ r1.status = 0 THEN {_request_result(c, r1)}
    ELSE UNION { IF x.exc # "none" THEN {x}
                 ELSE { _request_result(Request(x, method, r2), r2) : r2 \in CmsResponses }
                 : x \in _request_reauth(c, own, t) }

\* _request from the first response r1 on (lines 198-215)
_request_response(c, method, r1, own, t) ==
    IF r1.status # 401 THEN {_request_result(c, r1)}
    ELSE UNION { IF x.exc # "none" THEN {x}
                 ELSE { _request_result(Request(x, method, r2), r2) : r2 \in CmsResponses }
                 : x \in _request_reauth(c, own, t) }

\* the same with the expiry of the session token left out of the test
_request_token_only(c, method, own, t) ==
    LET ready ==
            IF c.sess.auth_manager THEN get_api_token(c, t)
            ELSE IF ~Truthy(c.sess.session_token)
                 THEN _refresh_token(c, t)
                 ELSE {c}
    IN UNION { IF g.exc # "none" THEN {g}
               ELSE IF g.sess.base_url = None THEN {Raise(g, "AttributeError")}
               ELSE UNION { _request_response(Request(g, method, r1), method, r1, own, t)
                            : r1 \in CmsResponses }
               : g \in ready }

\* AskDelphiSession._request
_request(c, method, own, t) ==
    LET ready ==
            IF c.sess.auth_manager THEN get_api_token(c, t)
            ELSE IF ~Truthy(c.sess.session_token) \/ t >= c.sess.token_expiry
                 THEN _refresh_token(c, t)
                 ELSE {c}
    IN UNION { IF g.exc # "none" THEN {g}
               ELSE IF g.sess.base_url = None THEN {Raise(g, "AttributeError")}
               ELSE UNION { _request_response(Request(g, method, r1), method, r1, own, t)
                            : r1 \in CmsResponses }
               : g \in ready }

-----------------------------------------------------------------------------
(* The token cache on its own: a cache object on which a caller sets       *)
(* fields and tokens and asks for validity while time passes.              *)

NoData == [access_token |-> JsonAbsent, refresh_token |-> JsonAbsent,
           publication_url |-> JsonAbsent]
NoFile == [state |-> "missing", data |-> NoData, writable |-> TRUE]

\* AskDelphiSession.__init__ without an auth manager
\* a session without tokens, in a complete context
NoSession ==
    [auth_manager |-> FALSE, session_token |-> None, token_expiry |-> 0,
     base_url |-> "https://api", tenant |-> "T1", project_id |-> "P1", acl |-> <<"A1">>]

NoCall == [op |-> "none"]

\* no import is running
NoImport == [status |-> "none"]

\* no delete is running
NoDelete == [status |-> "none"]

\* no mapper is in use
NoMapper == [call |-> "none"]

\* nothing is being constructed
NoConfig == [call |-> "none"]

InitCache ==
    /\ now = 1000
    /\ cache = TokenCacheInit
    /\ cache_file = NoFile
    /\ portal_code = None
    /\ sess = NoSession
    /\ net = << >>
    /\ last = NoCall
    /\ imp = NoImport
    /\ del = NoDelete
    /\ mapper = NoMapper
    /\ cfg = NoConfig

\* time passes
Tick ==
    /\ \E t \in Instants :
          /\ t > now
          /\ now' = t
    /\ last' = [op |-> "tick"]
    /\ UNCHANGED <<cache, cache_file, portal_code, sess, net>>
    /\ UNCHANGED treeVars

\* cache.set_api_token(token)
CacheSetApiToken ==
    /\ \E token \in TokenStrings :
          LET r == set_api_token(cache, token, now) IN
          /\ cache' = r.cache
          /\ last' = [op |-> "set_api_token", token |-> token, exc |-> r.exc, at |-> now]
    /\ UNCHANGED <<now, cache_file, portal_code, sess, net>>
    /\ UNCHANGED treeVars

\* cache.is_api_token_valid()
CacheIsApiTokenValid ==
    /\ last' = [op |-> "is_api_token_valid", ret |-> is_api_token_valid(cache, now)]
    /\ UNCHANGED <<now, cache, cache_file, portal_code, sess, net>>
    /\ UNCHANGED treeVars

\* cache.api_token = ...; cache.api_token_expiry = ..., as the tests do
CacheAssign ==
    /\ \E token \in {NoToken, EmptyToken, Jwt(NoExp, "sig")} :
       \E e \in {now - 1, now + TOKEN_EXPIRY_BUFFER - 1, now + TOKEN_EXPIRY_BUFFER,
                 now + TOKEN_EXPIRY_BUFFER + 1, now + DEFAULT_TOKEN_EXPIRY} :
          cache' = [cache EXCEPT !.api_token = token, !.api_token_expiry = e]
    /\ last' = [op |-> "assign"]
    /\ UNCHANGED <<now, cache_file, portal_code, sess, net>>
    /\ UNCHANGED treeVars

NextCache == Tick \/ CacheSetApiToken \/ CacheIsApiTokenValid \/ CacheAssign

SpecCache == InitCache /\ [][NextCache]_vars

-----------------------------------------------------------------------------
(* The token authority: an AskDelphiAuth object on which authenticate,     *)
(* get_api_token and _refresh_tokens are called while time passes.         *)

\* the cache file the constructor finds
InitialFiles ==
    { NoFile, [NoFile EXCEPT !.writable = FALSE],
      [state |-> "object", writable |-> TRUE,
       data |-> [access_token |-> JsonString("acc1"), refresh_token |-> JsonString("ref1"),
                 publication_url |-> JsonString("https://pub.example")]],
      [state |-> "object", writable |-> TRUE,
       data |-> [access_token |-> JsonString("acc1"), refresh_token |-> JsonNull,
                 publication_url |-> JsonString("https://pub.example")]] }

\* AskDelphiAuth.__init__ from `self.portal_code = ...` on (lines 293-296)
InitAuth ==
    /\ now = 1000
    /\ cache_file \in InitialFiles
    /\ cache = load(TokenCacheInit, cache_file).cache
    /\ portal_code \in {None, "code"}
    /\ sess = NoSession
    /\ net = << >>
    /\ last = NoCall
    /\ imp = NoImport
    /\ del = NoDelete
    /\ mapper = NoMapper
    /\ cfg = NoConfig

\* the end of a call: the objects' state, the requests sent, the outcome
Finish(op, c) ==
    /\ cache' = c.cache
    /\ cache_file' = c.file
    /\ sess' = c.sess
    /\ net' = c.net
    /\ last' = [op |-> op, exc |-> c.exc, tok |-> c.tok, body |-> c.body,
                flag |-> c.flag, status |-> c.status, at |-> now]
    /\ UNCHANGED <<now, portal_code>>
    /\ UNCHANGED treeVars

\* auth.authenticate(portal_code)
AuthAuthenticate ==
    /\ last = NoCall
    /\ \E arg \in {None, "code2"} :
       \E c \in authenticate(Ctx(cache, cache_file, sess), arg, portal_code, now) :
           Finish("authenticate", c)

\* auth.get_api_token()
AuthGetApiToken ==
    /\ last = NoCall
    /\ \E c \in get_api_token(Ctx(cache, cache_file, sess), now) :
           Finish("get_api_token", c)

\* auth._refresh_tokens()
AuthRefreshTokens ==
    /\ last = NoCall
    /\ \E c \in _refresh_tokens(Ctx(cache, cache_file, sess), now) :
           Finish("_refresh_tokens", c)

\* the caller takes the outcome of the call and goes on
AuthContinue ==
    /\ last # NoCall
    /\ last' = NoCall
    /\ net' = << >>
    /\ UNCHANGED <<now, cache, cache_file, portal_code, sess>>
    /\ UNCHANGED treeVars

\* time passes between two calls
AuthTick ==
    /\ last = NoCall
    /\ \E t \in Instants :
          /\ t > now
          /\ now' = t
    /\ UNCHANGED <<cache, cache_file, portal_code, sess, net, last>>
    /\ UNCHANGED treeVars

NextAuth ==
    AuthAuthenticate \/ AuthGetApiToken \/ AuthRefreshTokens \/ AuthContinue \/ AuthTick

SpecAuth == InitAuth /\ [][NextAuth]_vars

-----------------------------------------------------------------------------
(* The session: an AskDelphiSession, with or without an auth manager, on   *)
(* which get, post, put and delete are called while time passes.           *)

Methods == {"GET", "POST", "PUT", "DELETE"}

InitSession ==
    /\ now = 1000
    /\ cache_file \in InitialFiles
    /\ cache = load(TokenCacheInit, cache_file).cache
    /\ portal_code \in {None, "code"}
    /\ sess \in {NoSession, [NoSession EXCEPT !.auth_manager = TRUE]}
    /\ net = << >>
    /\ last = NoCall
    /\ imp = NoImport
    /\ del = NoDelete
    /\ mapper = NoMapper
    /\ cfg = NoConfig

\* session.get / post / put / delete
SessionRequest ==
    /\ last = NoCall
    /\ \E method \in Methods :
       \E c \in _request(Ctx(cache, cache_file, sess), method, portal_code, now) :
           Finish("_request", c)

NextSession == SessionRequest \/ AuthContinue \/ AuthTick

SpecSession == InitSession /\ [][NextSession]_vars

-----------------------------------------------------------------------------
(* The tree importer, src/src/importer/importer.py.  A run of              *)
(* import_topics is a sequence of API calls; the model takes one step per  *)
(* call, with the answer of the server chosen freely, and keeps the        *)
(* recursion of _import_topic_recursive as an explicit stack.              *)

\* the largest forest imported, and the most unexpected answers in one run
MaxNodes == 4
MaxFaults == 2

\* The TopicNodes, numbered in the order of the input (a parent before its
\* children, a sibling's subtree before the next sibling).
Nodes == 1 .. MaxNodes
NodeSeq == [n \in Nodes |-> n]

\* import_topics itself, as the owner of the list of roots
Roots == 0

RECURSIVE AncestorsOrSelf(_, _)
AncestorsOrSelf(parent, n) ==
    IF n = Roots THEN {Roots} ELSE {n} \cup AncestorsOrSelf(parent, parent[n])

\* every forest of MaxNodes nodes, as the map from a node to its parent
Forests ==
    {p \in [Nodes -> 0 .. MaxNodes - 1] :
        \A n \in Nodes :
            /\ p[n] < n
            /\ n > 1 => p[n] \in AncestorsOrSelf(p, n - 1)}

\* the children taken last first
ChildrenReversed(parent, n) ==
    LET c == SelectSeq(NodeSeq, LAMBDA k : parent[k] = n)
    IN  [i \in 1 .. Len(c) |-> c[Len(c) + 1 - i]]

\* the same with the loop left after the first child
FirstChildOnly(parent, n) ==
    LET c == SelectSeq(NodeSeq, LAMBDA k : parent[k] = n)
    IN  IF c = << >> THEN << >> ELSE << c[1] >>

\* TopicNode.children, and root_topics for Roots
Children(parent, n) == SelectSeq(NodeSeq, LAMBDA k : parent[k] = n)

\* the nodes below n, n included
RECURSIVE Subtree(_, _)
Subtree(parent, n) ==
    {n} \cup UNION {Subtree(parent, k) : k \in {j \in Nodes : parent[j] = n}}

\* A TopicNode is its id and one of four makes of metadata, relations and
\* tags; a run gives the makes to the nodes in turn, starting at any one.
TopicNode(n, first) == [id |-> n, make |-> (n + first) % 4]

\* TopicNode.metadata, as the set of its keys: a description as the mapper
\* gives to a homepage, task or step, a content as it gives to an
\* instruction, or nothing
Metadata(topic) ==
    CASE topic.make = 1 -> {"description"}
      [] topic.make = 3 -> {}
      [] OTHER          -> {"content"}

\* topic.metadata["content"]: a text, or the empty string the mapper gives
\* to an instruction without content
Content(topic) == IF topic.make = 0 THEN "X" ELSE ""

\* whether the node carries a relations attribute (the dataclass has none)
hasattr_relations(topic) == topic.make # 1

\* topic.relations in iteration order: a relation type and whether its list
\* of target ids is non-empty
Relations(topic) ==
    CASE topic.make = 2 -> << [type |-> "r1", targets |-> TRUE],
                         [type |-> "r2", targets |-> FALSE],
                         [type |-> "r3", targets |-> TRUE] >>
      [] topic.make = 0 -> << [type |-> "r1", targets |-> TRUE] >>
      [] OTHER          -> << >>

\* topic.tags: "dict" is a dict with hierarchyTopicId and hierarchyNodeId,
\* "partial" a dict without hierarchyNodeId, "str" a plain string
Tags(topic) ==
    CASE topic.make = 1 -> << "str" >>
      [] topic.make = 3 -> << "dict", "str", "dict" >>
      [] topic.make = 0 -> << "partial", "dict" >>
      [] OTHER          -> << >>

\* an API call: the operation, the topic and, for a relation or a tag, its
\* place in the node's list
Call(op, n, i) == [op |-> op, node |-> n, i |-> i]
Nothing == Call("none", 0, 0)

\* the first relation from place i on with target ids
RECURSIVE NextRelation(_, _)
NextRelation(topic, i) ==
    IF i > Len(Relations(topic)) THEN 0
    ELSE IF Relations(topic)[i].targets THEN i
    ELSE NextRelation(topic, i + 1)

\* the first tag from place i on that carries both hierarchy ids
RECURSIVE NextTag(_, _)
NextTag(topic, i) ==
    IF i > Len(Tags(topic)) THEN 0
    ELSE IF Tags(topic)[i] = "dict" THEN i
    ELSE NextTag(topic, i + 1)

\* The methods of the importer, each as the next API call that is made
\* when control reaches it (for a loop: reaches place i of it).

checkin(topic) == Call("checkin", topic.id, 0)

_add_tags(topic, topic_version_id, i) ==
    IF Truthy(topic_version_id) /\ Tags(topic) # << >> /\ NextTag(topic, i) # 0
    THEN Call("add_tag", topic.id, NextTag(topic, i))
    ELSE checkin(topic)

_add_relations(topic, topic_version_id, i) ==
    IF /\ Truthy(topic_version_id)
       /\ hasattr_relations(topic)
       /\ Relations(topic) # << >>
       /\ NextRelation(topic, i) # 0
    THEN Call("add_relation", topic.id, NextRelation(topic, i))
    ELSE _add_tags(topic, topic_version_id, 1)

_update_metadata(topic, topic_version_id) ==
    IF Metadata(topic) # {} /\ Truthy(topic_version_id)
    THEN Call("update_metadata", topic.id, 0)
    ELSE _add_relations(topic, topic_version_id, 1)

\* the same for a content that is not empty only
_update_parts_truthy(topic, topic_version_id) ==
    IF "content" \in Metadata(topic) /\ Truthy(Content(topic)) /\ Truthy(topic_version_id)
    THEN Call("update_part", topic.id, 0)
    ELSE _update_metadata(topic, topic_version_id)

\* the same without the test of the version id
_update_parts_unversioned(topic, topic_version_id) ==
    IF "content" \in Metadata(topic)
    THEN Call("update_part", topic.id, 0)
    ELSE _update_metadata(topic, topic_version_id)

_update_parts(topic, topic_version_id) ==
    IF "content" \in Metadata(topic) /\ Truthy(topic_version_id)
    THEN Call("update_part", topic.id, 0)
    ELSE _update_metadata(topic, topic_version_id)

\* the writes start without a checkout
checkout_skipped(topic) == _update_parts(topic, "v1")

checkout(topic) == Call("checkout", topic.id, 0)

\* The answers of the API to a call: whether it succeeded and, for a create
\* or a checkout, the topic version id in the body.
CreateAnswers ==
    { [ok |-> TRUE, vid |-> "v1"], [ok |-> TRUE, vid |-> None],
      [ok |-> FALSE, vid |-> None] }
CheckoutAnswers ==
    { [ok |-> TRUE, vid |-> "v2"], [ok |-> TRUE, vid |-> None],
      [ok |-> FALSE, vid |-> None] }
PlainAnswers == { [ok |-> TRUE, vid |-> None], [ok |-> FALSE, vid |-> None] }

\* the answer a healthy CMS gives to the call
Expected(op, r) == r.ok /\ (op \in {"create", "checkout"} => Truthy(r.vid))

\* the text of the part sent with an update_part call
Text(call, first) ==
    IF call.op = "update_part" THEN Content(TopicNode(call.node, first)) ELSE None

\* whether the importer holds a topic version id after the checkout that
\* was answered r (line 107)
Versioned(m, r) ==
    m.pc.op = "checkout" /\ r.ok /\ (Truthy(r.vid) \/ Truthy(m.vid))

\* the call is made and answered
Logged(m, r) ==
    [m EXCEPT !.log = Append(@, [op |-> m.pc.op, node |-> m.pc.node,
                                 i |-> m.pc.i, text |-> Text(m.pc, m.first),
                                 ok |-> r.ok, versioned |-> Versioned(m, r)]),
              !.faults = @ + (IF Expected(m.pc.op, r) THEN 0 ELSE 1)]

\* an exception leaves import_topics
Raised(m) == [m EXCEPT !.status = "raised", !.pc = Nothing, !.stack = << >>]

\* the same with the version id kept from one topic to the next
RECURSIVE NextTopic_version_kept(_)
NextTopic_version_kept(m) ==
    IF m.stack = << >>
    THEN [m EXCEPT !.status = "returned", !.pc = Nothing]
    ELSE LET depth == Len(m.stack)
             top == m.stack[depth]
             children == Children(m.parent, top.node)
         IN  IF top.idx < Len(children)
             THEN [m EXCEPT !.stack = Append([@ EXCEPT ![depth].idx = top.idx + 1],
                                             [node |-> children[top.idx + 1], idx |-> 0]),
                            !.pc = Call("create", children[top.idx + 1], 0)]
             ELSE NextTopic_version_kept([m EXCEPT !.stack = SubSeq(@, 1, depth - 1)])

\* Control is in the loop of the innermost frame, over root_topics in
\* import_topics and over topic.children in _import_topic_recursive: the
\* next topic is entered, or the frame returns to the loop of its caller.
RECURSIVE NextTopic(_)
NextTopic(m) ==
    IF m.stack = << >>
    THEN [m EXCEPT !.status = "returned", !.pc = Nothing]
    ELSE LET depth == Len(m.stack)
             top == m.stack[depth]
             children == Children(m.parent, top.node)
         IN  IF top.idx < Len(children)
             THEN [m EXCEPT !.stack = Append([@ EXCEPT ![depth].idx = top.idx + 1],
                                             [node |-> children[top.idx + 1], idx |-> 0]),
                            !.vid = None,
                            !.pc = Call("create", children[top.idx + 1], 0)]
             ELSE NextTopic([m EXCEPT !.stack = SubSeq(@, 1, depth - 1)])

\* the topic of the innermost frame
Topic(m) == TopicNode(m.pc.node, m.first)

\* What _import_topic_recursive and its helpers do with the answer r to
\* the call m.pc.

\* a failed create is passed over
create_done_swallowed(m, r) ==
    [m EXCEPT !.vid = r.vid, !.pc = checkout(Topic(m))]

create_done(m, r) ==
    IF ~r.ok THEN Raised(m)
    ELSE [m EXCEPT !.vid = r.vid, !.pc = checkout(Topic(m))]

checkout_done(m, r) ==
    IF ~r.ok THEN Raised(m)
    ELSE LET topic_version_id == IF Truthy(r.vid) THEN r.vid ELSE m.vid
         IN  [m EXCEPT !.vid = topic_version_id,
                       !.pc = _update_parts(Topic(m), topic_version_id)]

update_part_done(m, r) ==
    IF ~r.ok THEN Raised(m)
    ELSE [m EXCEPT !.pc = _update_metadata(Topic(m), m.vid)]

\* a failed metadata update is not caught
update_metadata_done_raise(m, r) ==
    IF ~r.ok THEN Raised(m)
    ELSE [m EXCEPT !.pc = _add_relations(Topic(m), m.vid, 1)]

update_metadata_done(m, r) ==
    [m EXCEPT !.pc = _add_relations(Topic(m), m.vid, 1)]

\* a failed add_relation is not caught
add_relation_done_raise(m, r) ==
    IF ~r.ok THEN Raised(m)
    ELSE [m EXCEPT !.pc = _add_relations(Topic(m), m.vid, m.pc.i + 1)]

add_relation_done(m, r) ==
    IF ~r.ok THEN [m EXCEPT !.pc = _add_tags(Topic(m), m.vid, 1)]
    ELSE [m EXCEPT !.pc = _add_relations(Topic(m), m.vid, m.pc.i + 1)]

add_tag_done(m, r) ==
    IF ~r.ok THEN [m EXCEPT !.pc = checkin(Topic(m))]
    ELSE [m EXCEPT !.pc = _add_tags(Topic(m), m.vid, m.pc.i + 1)]

\* a failed checkin is passed over
checkin_done_swallowed(m, r) == NextTopic(m)

checkin_done(m, r) ==
    IF ~r.ok THEN Raised(m) ELSE NextTopic(m)

\* import_topics is entered
import_topics(m) ==
    NextTopic([m EXCEPT !.status = "running",
                        !.stack = << [node |-> Roots, idx |-> 0] >>])

NoAuth ==
    /\ now = 1000
    /\ cache = TokenCacheInit
    /\ cache_file = NoFile
    /\ portal_code = None
    /\ sess = NoSession
    /\ net = << >>
    /\ last = NoCall

InitImport ==
    /\ NoAuth
    /\ del = NoDelete
    /\ mapper = NoMapper
    /\ cfg = NoConfig
    /\ \E p \in Forests, first \in 0 .. 3 :
           imp = [status |-> "idle", parent |-> p, first |-> first, stack |-> << >>,
                  pc |-> Nothing, vid |-> None, log |-> << >>, faults |-> 0]

ImportTopics ==
    /\ imp.status = "idle"
    /\ imp' = import_topics(imp)
    /\ UNCHANGED <<authVars, del, mapper, cfg>>

\* the pending call is answered; beyond MaxFaults only as expected
Answered(op, answers, r) ==
    /\ imp.status = "running"
    /\ imp.pc.op = op
    /\ r \in answers
    /\ Expected(op, r) \/ imp.faults < MaxFaults

ImportCreate ==
    /\ \E r \in CreateAnswers :
           Answered("create", CreateAnswers, r) /\ imp' = create_done(Logged(imp, r), r)
    /\ UNCHANGED <<authVars, del, mapper, cfg>>

ImportCheckout ==
    /\ \E r \in CheckoutAnswers :
           Answered("checkout", CheckoutAnswers, r) /\ imp' = checkout_done(Logged(imp, r), r)
    /\ UNCHANGED <<authVars, del, mapper, cfg>>

ImportUpdatePart ==
    /\ \E r \in PlainAnswers :
           Answered("update_part", PlainAnswers, r) /\ imp' = update_part_done(Logged(imp, r), r)
    /\ UNCHANGED <<authVars, del, mapper, cfg>>

ImportUpdateMetadata ==
    /\ \E r \in PlainAnswers :
           Answered("update_metadata", PlainAnswers, r)
           /\ imp' = update_metadata_done(Logged(imp, r), r)
    /\ UNCHANGED <<authVars, del, mapper, cfg>>

ImportAddRelation ==
    /\ \E r \in PlainAnswers :
           Answered("add_relation", PlainAnswers, r)
           /\ imp' = add_relation_done(Logged(imp, r), r)
    /\ UNCHANGED <<authVars, del, mapper, cfg>>

ImportAddTag ==
    /\ \E r \in PlainAnswers :
           Answered("add_tag", PlainAnswers, r) /\ imp' = add_tag_done(Logged(imp, r), r)
    /\ UNCHANGED <<authVars, del, mapper, cfg>>

ImportCheckin ==
    /\ \E r \in PlainAnswers :
           Answered("checkin", PlainAnswers, r) /\ imp' = checkin_done(Logged(imp, r), r)
    /\ UNCHANGED <<authVars, del, mapper, cfg>>

NextImport ==
    \/ ImportTopics
    \/ ImportCreate
    \/ ImportCheckout
    \/ ImportUpdatePart
    \/ ImportUpdateMetadata
    \/ ImportAddRelation
    \/ ImportAddTag
    \/ ImportCheckin

SpecImport == InitImport /\ [][NextImport]_vars

-----------------------------------------------------------------------------
(* The cascading delete, TopicService.delete_topic_recursive in            *)
(* src/src/api_client/topic.py.  The CMS holds a forest of topics; a       *)
(* caller deletes one of them, naming some of its children.  The model     *)
(* takes one step per GET and per DELETE, with the answer of the CMS       *)
(* chosen freely, and keeps the recursion as an explicit stack.            *)

\* the lists of children a caller can name for topic n: any of its
\* children, in the order of the CMS
KnownChildren(parent, n) ==
    {SelectSeq(NodeSeq, LAMBDA k : k \in S) :
        S \in SUBSET {k \in Nodes : parent[k] = n}}

\* The answers to get_topic(n): an exception; a body that is falsy; a body
\* without a version id; a body with one, and with the topic's children
\* or without a children member.
GetAnswers(parent, n) ==
    { [kind |-> "raise", children |-> << >>],
      [kind |-> "falsy", children |-> << >>],
      [kind |-> "unversioned", children |-> Children(parent, n)],
      [kind |-> "topic", children |-> Children(parent, n)],
      [kind |-> "topic", children |-> << >>] }

\* the answers to delete_topic: a body or an exception
DeleteAnswers ==
    { [kind |-> "deleted", children |-> << >>],
      [kind |-> "raise", children |-> << >>] }

\* the answer a healthy CMS gives to the call for topic n
ExpectedAnswer(parent, op, n, r) ==
    IF op = "get" THEN r = [kind |-> "topic", children |-> Children(parent, n)]
    ELSE r.kind = "deleted"

\* the call is made and answered
LoggedAnswer(m, r) ==
    [m EXCEPT !.log = Append(@, [op |-> m.pc.op, node |-> m.pc.node,
                                 kind |-> r.kind, children |-> r.children]),
              !.faults = @ + (IF ExpectedAnswer(m.parent, m.pc.op, m.pc.node, r)
                              THEN 0 ELSE 1)]

\* Control is in the loop over children_ids of the innermost frame: the
\* next child is fetched, or after the last one the topic itself is
\* deleted.
delete_loop(m) ==
    LET depth == Len(m.stack)
        top == m.stack[depth]
    IN  IF top.idx < Len(top.children_ids)
        THEN [m EXCEPT !.stack[depth].idx = top.idx + 1,
                       !.pc = Call("get", top.children_ids[top.idx + 1], 0)]
        ELSE [m EXCEPT !.pc = Call("delete", top.topic_id, 0)]

\* the topics beside the topic are taken for its children
delete_topic_recursive_beside(m, topic_id, children_ids) ==
    delete_loop([m EXCEPT !.stack = Append(@,
        [topic_id |-> topic_id,
         children_ids |-> SelectSeq(NodeSeq, LAMBDA k :
                              k # topic_id /\ m.parent[k] = m.parent[topic_id]),
         idx |-> 0])])

\* delete_topic_recursive is entered
delete_topic_recursive(m, topic_id, children_ids) ==
    delete_loop([m EXCEPT !.stack = Append(@, [topic_id |-> topic_id,
                                               children_ids |-> children_ids,
                                               idx |-> 0])])

\* a fetched child is passed over
get_topic_skipped(m, r) == delete_loop(m)

\* get_topic of a child has answered
get_topic_done(m, r) ==
    IF r.kind = "topic"
    THEN delete_topic_recursive(m, m.pc.node, r.children)
    ELSE delete_loop(m)

\* a failed delete_topic of a child is not caught
delete_topic_uncaught(m, r) ==
    IF r.kind = "raise"
    THEN [m EXCEPT !.stack = << >>, !.pc = Nothing, !.status = "raised"]
    ELSE IF Len(m.stack) = 1
    THEN [m EXCEPT !.stack = << >>, !.pc = Nothing, !.status = "returned"]
    ELSE delete_loop([m EXCEPT !.stack = SubSeq(@, 1, Len(@) - 1)])

\* delete_topic of the topic of the innermost frame has answered: the
\* frame returns or raises, into the loop of its caller, which catches,
\* or out of the outermost call
delete_topic_done(m, r) ==
    LET rest == SubSeq(m.stack, 1, Len(m.stack) - 1)
    IN  IF rest = << >>
        THEN [m EXCEPT !.stack = rest, !.pc = Nothing,
                       !.status = IF r.kind = "deleted" THEN "returned"
                                  ELSE "raised"]
        ELSE delete_loop([m EXCEPT !.stack = rest])

InitDelete ==
    /\ NoAuth
    /\ imp = NoImport
    /\ mapper = NoMapper
    /\ cfg = NoConfig
    /\ \E p \in Forests :
           del = [status |-> "idle", parent |-> p, topic_id |-> 0,
                  children_ids |-> << >>,
                  stack |-> << >>, pc |-> Nothing, log |-> << >>, faults |-> 0]

\* a caller deletes a topic
DeleteTopicRecursive ==
    /\ del.status = "idle"
    /\ \E topic_id \in Nodes :
       \E children_ids \in KnownChildren(del.parent, topic_id) :
           del' = delete_topic_recursive(
                      [del EXCEPT !.status = "running", !.topic_id = topic_id,
                                  !.children_ids = children_ids],
                      topic_id, children_ids)
    /\ UNCHANGED <<authVars, imp, mapper, cfg>>

DeleteGetTopic ==
    /\ del.status = "running"
    /\ del.pc.op = "get"
    /\ \E r \in GetAnswers(del.parent, del.pc.node) :
           /\ ExpectedAnswer(del.parent, "get", del.pc.node, r)
                  \/ del.faults < MaxFaults
           /\ del' = get_topic_done(LoggedAnswer(del, r), r)
    /\ UNCHANGED <<authVars, imp, mapper, cfg>>

DeleteDeleteTopic ==
    /\ del.status = "running"
    /\ del.pc.op = "delete"
    /\ \E r \in DeleteAnswers :
           /\ ExpectedAnswer(del.parent, "delete", del.pc.node, r)
                  \/ del.faults < MaxFaults
           /\ del' = delete_topic_done(LoggedAnswer(del, r), r)
    /\ UNCHANGED <<authVars, imp, mapper, cfg>>

NextDelete == DeleteTopicRecursive \/ DeleteGetTopic \/ DeleteDeleteTopic

SpecDelete == InitDelete /\ [][NextDelete]_vars

-----------------------------------------------------------------------------
\* the requests of the last call that went to the CMS
CmsRequests == SelectSeq(net, LAMBDA e : e.ep = "cms")

(* C1: every call of _request, with any method and in both modes, sends    *)
(* the target request at most twice; answered 401 and then 2xx it returns  *)
(* the body of the second response; answered 401 twice it raises           *)
(* AskDelphiAuthError and sends no third request.                          *)
C1_RetryOnce ==
    last.op = "_request" =>
        /\ Len(CmsRequests) <= 2
        /\ (/\ Len(CmsRequests) = 2
            /\ CmsRequests[1].status = 401
            /\ CmsRequests[2].status \in 200..299)
               => last.exc = "none" /\ last.body = CmsRequests[2].body
        /\ (/\ Len(CmsRequests) >= 2
            /\ CmsRequests[1].status = 401
            /\ CmsRequests[2].status = 401)
               => last.exc = "AskDelphiAuthError" /\ last.status = 401
                  /\ Len(CmsRequests) = 2

\* with an auth manager, a call was answered 401 twice and gave up
C1_Witness ==
    /\ last.op = "_request"
    /\ sess.auth_manager
    /\ Len(CmsRequests) = 2
    /\ CmsRequests[1].status = 401
    /\ CmsRequests[2].status = 401
    /\ last.exc = "AskDelphiAuthError"

(* C2: a token that get_api_token returns is the one stored in the cache   *)
(* and is valid at return time, now < api_token_expiry - 300, whatever exp *)
(* the fetched token carries.                                              *)
C2_ReturnedTokenValid ==
    (last.op = "get_api_token" /\ last.exc = "none") =>
        /\ last.tok = cache.api_token
        /\ now < cache.api_token_expiry - 300

-----------------------------------------------------------------------------
(* C3: is_api_token_valid is truthy exactly when an API token is set and   *)
(* expiry - now > 300; it is falsy when no token is set or                 *)
(* expiry - now <= 300, the boundary expiry - now = 300 included.          *)
C3_ValidityBoundary ==
    last.op = "is_api_token_valid" =>
        /\ last.ret <=> (TokenTruthy(cache.api_token)
                         /\ cache.api_token_expiry - now > 300)
        /\ (~TokenTruthy(cache.api_token) \/ cache.api_token_expiry - now <= 300)
               => ~last.ret

\* the check ran with a token set, exactly on the boundary
C3_Witness ==
    /\ last.op = "is_api_token_valid"
    /\ TokenTruthy(cache.api_token)
    /\ cache.api_token_expiry - now = 300
    /\ ~last.ret

(* C4: set_api_token never raises and always stores the token; a payload   *)
(* that decodes to a JSON object with a numeric exp claim T gives          *)
(* api_token_expiry = T; a missing, undecodable or non-JSON payload, or    *)
(* one without exp, gives now + 3600.                                      *)
C4_SetApiTokenExpiry ==
    last.op = "set_api_token" =>
        /\ last.exc = "none"
        /\ cache.api_token = last.token
        /\ LET tok == last.token
               hasExp == /\ Len(tok) >= 2
                         /\ tok[2].dec.k = "obj"
                         /\ tok[2].dec.exp.k \in {"num", "big"}
               noExp == \/ Len(tok) < 2
                        \/ tok[2].dec.k # "obj"
                        \/ tok[2].dec.exp.k = "absent"
           IN /\ hasExp => cache.api_token_expiry = tok[2].dec.exp.v
              /\ noExp => cache.api_token_expiry = last.at + 3600

-----------------------------------------------------------------------------
\* the calls of the import so far, and the calls that write into a topic
Calls == imp.log
Writes == {"update_part", "update_metadata", "add_relation", "add_tag"}

\* call i was op for topic n and ended as ok
Was(i, op, n, ok) ==
    Calls[i].op = op /\ Calls[i].node = n /\ Calls[i].ok = ok

\* call i failed and was one of ops
Failed(i, ops) == Calls[i].op \in ops /\ ~Calls[i].ok

\* the siblings listed before n, roots being siblings of each other
EarlierSiblings(n) == {s \in Nodes : s < n /\ imp.parent[s] = imp.parent[n]}

(* C5: import_topics walks the forest depth-first in pre-order, siblings   *)
(* in list order: the create calls come in the order of the input; the     *)
(* create call of a node that has a parent is made only after the create   *)
(* call and the checkin call of the parent have succeeded; and when a      *)
(* node is created, every topic in the subtrees of its earlier siblings    *)
(* has been checked in and no call for such a topic comes later.           *)
C5_DepthFirstPreOrder ==
    \A i \in DOMAIN Calls :
        Calls[i].op = "create" =>
            LET n == Calls[i].node
                par == imp.parent[n]
            IN  /\ Cardinality({j \in 1 .. i : Calls[j].op = "create"}) = n
                /\ par # Roots =>
                       /\ \E j \in 1 .. i - 1 : Was(j, "create", par, TRUE)
                       /\ \E j \in 1 .. i - 1 : Was(j, "checkin", par, TRUE)
                /\ \A s \in EarlierSiblings(n) :
                       /\ \A d \in Subtree(imp.parent, s) :
                              \E j \in 1 .. i - 1 : Was(j, "checkin", d, TRUE)
                       /\ \A k \in DOMAIN Calls :
                              Calls[k].node \in Subtree(imp.parent, s) => k < i

\* a node was created whose earlier sibling, below a common parent, has a
\* child of its own
C5_Witness ==
    \E i \in DOMAIN Calls :
        /\ Calls[i].op = "create"
        /\ imp.parent[Calls[i].node] # Roots
        /\ \E s \in EarlierSiblings(Calls[i].node) :
               Subtree(imp.parent, s) # {s}

(* C6: every part, metadata, relation and tag write of an import follows   *)
(* a successful checkout of the same topic, with nothing but writes to     *)
(* that topic in between, and no checkin of that topic precedes it.        *)
C6_WritesInsideBracket ==
    \A i \in DOMAIN Calls :
        Calls[i].op \in Writes =>
            /\ \E j \in 1 .. i - 1 :
                   /\ Was(j, "checkout", Calls[i].node, TRUE)
                   /\ \A k \in j + 1 .. i - 1 :
                          Calls[k].op \in Writes /\ Calls[k].node = Calls[i].node
            /\ \A k \in 1 .. i - 1 :
                   ~(Calls[k].op = "checkin" /\ Calls[k].node = Calls[i].node)

\* a topic was checked out, got its part, its metadata, a relation and a
\* tag written, and was checked in
C6_Witness ==
    \E j, k \in DOMAIN Calls :
        /\ j < k
        /\ Was(j, "checkout", Calls[k].node, TRUE)
        /\ Was(k, "checkin", Calls[j].node, TRUE)
        /\ \A w \in Writes :
               \E i \in j + 1 .. k - 1 :
                   Calls[i].op = w /\ Calls[i].node = Calls[j].node

(* C7: a failed create call is the last call of the import, and the        *)
(* import ends with the exception leaving import_topics.                   *)
C7_CreateFailureAborts ==
    \A i \in DOMAIN Calls :
        Failed(i, {"create"}) => i = Len(Calls) /\ imp.status = "raised"

\* the create of a node with a child and a later sibling failed, after
\* other topics had been imported
C7_Witness ==
    /\ imp.status = "raised"
    /\ Calls # << >>
    /\ Failed(Len(Calls), {"create"})
    /\ LET n == Calls[Len(Calls)].node
       IN  /\ imp.parent[n] # Roots
           /\ Subtree(imp.parent, n) # {n}
           /\ \E s \in Nodes : n \in EarlierSiblings(s)

C9_RelationTagFailureContained ==
    /\ \A i \in DOMAIN Calls :
           Failed(i, {"add_relation", "add_tag"}) =>
               LET next == IF i = Len(Calls) THEN imp.pc ELSE Calls[i + 1]
               IN  /\ i = Len(Calls) => imp.status = "running"
                   /\ next.node = Calls[i].node
                   /\ next.op \in {"add_tag", "checkin"}
                   /\ \A k \in i + 1 .. Len(Calls) :
                          Calls[k].node # Calls[i].node =>
                              \E j \in i + 1 .. k - 1 :
                                  Calls[j].op = "checkin" /\ Calls[j].node = Calls[i].node
    /\ imp.status = "running" => imp.pc # Nothing
    /\ imp.status = "returned" =>
           \A n \in Nodes :
               /\ \E j \in DOMAIN Calls : Was(j, "create", n, TRUE)
               /\ \E j \in DOMAIN Calls : Was(j, "checkin", n, TRUE)
    /\ imp.status = "raised" =>
           /\ Calls # << >>
           /\ Failed(Len(Calls), {"create", "checkout", "update_part", "checkin"})

\* an import returned in which a relation of one topic and a tag of a
\* topic with children could not be added
C9_Witness ==
    /\ imp.status = "returned"
    /\ \E i \in DOMAIN Calls : Failed(i, {"add_relation"})
    /\ \E i \in DOMAIN Calls :
           /\ Failed(i, {"add_tag"})
           /\ Subtree(imp.parent, Calls[i].node) # {Calls[i].node}

-----------------------------------------------------------------------------
\* the calls of the delete so far
DeleteCalls == del.log

(* C10: delete_topic_recursive deletes in post-order: when the DELETE of a *)
(* topic is issued, no DELETE of a topic below it comes later, and every   *)
(* topic below it that was fetched with a version id has had its own       *)
(* DELETE issued, after its fetch.                                         *)
C10_PostOrderDelete ==
    \A i \in DOMAIN DeleteCalls :
        DeleteCalls[i].op = "delete" =>
            LET below == Subtree(del.parent, DeleteCalls[i].node)
                             \ {DeleteCalls[i].node}
            IN  /\ \A j \in DOMAIN DeleteCalls :
                       (DeleteCalls[j].op = "delete" /\ DeleteCalls[j].node \in below)
                           => j < i
                /\ \A g \in DOMAIN DeleteCalls :
                       (/\ DeleteCalls[g].op = "get"
                        /\ DeleteCalls[g].kind = "topic"
                        /\ DeleteCalls[g].node \in below)
                           => \E j \in g + 1 .. i - 1 :
                                  /\ DeleteCalls[j].op = "delete"
                                  /\ DeleteCalls[j].node = DeleteCalls[g].node

\* a chain of three levels was deleted from its first level: the third
\* level, then the second, then the first
C10_Witness ==
    /\ del.status = "returned"
    /\ \E i, j, k \in DOMAIN DeleteCalls :
           /\ i < j /\ j < k
           /\ DeleteCalls[i].op = "delete"
           /\ DeleteCalls[j].op = "delete"
           /\ DeleteCalls[k].op = "delete"
           /\ DeleteCalls[k].node = del.topic_id
           /\ del.parent[DeleteCalls[j].node] = DeleteCalls[k].node
           /\ del.parent[DeleteCalls[i].node] = DeleteCalls[j].node

\* the places in the calls of the delete where op was issued for topic n
Issued(op, n) ==
    {i \in DOMAIN DeleteCalls : DeleteCalls[i].op = op /\ DeleteCalls[i].node = n}

(* C11: whatever fails while children are fetched or deleted, at any       *)
(* depth, a running delete always has a next call; when it has ended       *)
(* every child named by the caller has been fetched once, the DELETE of    *)
(* the topic passed in has been issued exactly once, as the last call,     *)
(* and the call has raised exactly when that DELETE failed.  The same      *)
(* holds below: every child listed by a topic fetched with a version id    *)
(* has been fetched, and that topic's DELETE has been issued once.         *)
C11_BestEffortDelete ==
    /\ del.status = "running" => del.pc # Nothing
    /\ del.status \in {"returned", "raised"} =>
           /\ \A i \in 1 .. Len(del.children_ids) :
                  Cardinality(Issued("get", del.children_ids[i])) = 1
           /\ Issued("delete", del.topic_id) = {Len(DeleteCalls)}
           /\ del.status = "raised" <=> DeleteCalls[Len(DeleteCalls)].kind = "raise"
           /\ \A g \in DOMAIN DeleteCalls :
                  (DeleteCalls[g].op = "get" /\ DeleteCalls[g].kind = "topic") =>
                      /\ Cardinality(Issued("delete", DeleteCalls[g].node)) = 1
                      /\ \A i \in 1 .. Len(DeleteCalls[g].children) :
                             Cardinality(Issued("get", DeleteCalls[g].children[i])) = 1

\* a delete returned although the fetch of one child named by the caller
\* and the DELETE of an earlier one had failed
C11_Witness ==
    /\ del.status = "returned"
    /\ \E i, j \in DOMAIN DeleteCalls :
           /\ i < j
           /\ DeleteCalls[i].op = "delete"
           /\ DeleteCalls[i].kind = "raise"
           /\ del.parent[DeleteCalls[i].node] = del.topic_id
           /\ DeleteCalls[j].op = "get"
           /\ DeleteCalls[j].kind = "raise"
           /\ del.parent[DeleteCalls[j].node] = del.topic_id

\* the topics named in a list
Named(list) == {list[i] : i \in 1 .. Len(list)}

\* the topics the delete has come to through children lists: those named
\* by the caller and those listed by a child fetched with a version id
Listed ==
    Named(del.children_ids)
        \cup UNION {Named(DeleteCalls[g].children) :
                       g \in {h \in DOMAIN DeleteCalls :
                                 DeleteCalls[h].op = "get"
                                 /\ DeleteCalls[h].kind = "topic"}}

(* C12: every GET and every DELETE of a delete is for the topic passed in  *)
(* or a topic it came to through a children list, all of them topics at    *)
(* or below the topic passed in: no call is made for its parent, for a     *)
(* topic beside it or for a topic of another subtree, so no such topic     *)
(* is deleted from the CMS.                                                *)
C12_DeleteStaysInSubtree ==
    \A i \in DOMAIN DeleteCalls :
        /\ DeleteCalls[i].node \in {del.topic_id} \cup Listed
        /\ DeleteCalls[i].node \in Subtree(del.parent, del.topic_id)
        /\ DeleteCalls[i].op = "get" => DeleteCalls[i].node # del.topic_id

\* a topic with a parent, a topic beside it and a child was deleted with
\* its child, and nothing else
C12_Witness ==
    /\ del.status = "returned"
    /\ del.parent[del.topic_id] # Roots
    /\ \E n \in Nodes : n # del.topic_id /\ del.parent[n] = del.parent[del.topic_id]
    /\ Subtree(del.parent, del.topic_id) # {del.topic_id}
    /\ {n \in Nodes : \E i \in Issued("delete", n) : DeleteCalls[i].kind = "deleted"}
           = Subtree(del.parent, del.topic_id)

-----------------------------------------------------------------------------
(* The mapper, src/src/importer/mapper.py.  A dict of the process document *)
(* is a record of its members; a member the dict does not have is Absent.  *)

Absent == "<absent>"

\* DEFAULT_TOPIC_TYPES: the four Digital Coach types and the first of the
\* extended types, each with its key as str() gives it
DEFAULT_TOPIC_TYPES ==
    << [key |-> "a1b2c3d4-e5f6-47a8-b9c0-d1e2f3a4b5c6", title |-> "Digitale Coach Homepagina"],
       [key |-> "b2c3d4e5-f6a7-48b9-c0d1-e2f3a4b5c6d7", title |-> "Digitale Coach Procespagina"],
       [key |-> "c3d4e5f6-a7b8-49ca-d1e2-f3a4b5c6d7e8", title |-> "Digitale Coach Stap"],
       [key |-> "d4e5f6a7-b8c9-4adb-e2f3-a4b5c6d7e8f9", title |-> "Digitale Coach Instructie"],
       [key |-> "c1225506-63e2-4785-9e51-06a587d54a9c", title |-> "Questionnaire"] >>

\* what dict.get gives for a key the dict does not hold
NoType == [key |-> None, title |-> None]

\* self.topic_types.get(title) and self.topic_types_by_id.get(key): the
\* last entry of the catalog with that title or key
RECURSIVE LastWith(_, _, _)
LastWith(member, value, i) ==
    IF i = 0 THEN NoType
    ELSE IF DEFAULT_TOPIC_TYPES[i][member] = value THEN DEFAULT_TOPIC_TYPES[i]
    ELSE LastWith(member, value, i - 1)

topic_types(title) == LastWith("title", title, Len(DEFAULT_TOPIC_TYPES))
topic_types_by_id(key) == LastWith("key", key, Len(DEFAULT_TOPIC_TYPES))

\* the title is looked up before the id
_get_topic_type_title_first(node, default_name) ==
    IF node.topic_type_title # Absent /\ topic_types(node.topic_type_title) # NoType
    THEN topic_types(node.topic_type_title)
    ELSE IF node.topic_type_id # Absent /\ topic_types_by_id(node.topic_type_id) # NoType
    THEN topic_types_by_id(node.topic_type_id)
    ELSE topic_types(default_name)

_get_topic_type(node, default_name) ==
    IF node.topic_type_id # Absent /\ topic_types_by_id(node.topic_type_id) # NoType
    THEN topic_types_by_id(node.topic_type_id)
    ELSE IF node.topic_type_title # Absent /\ topic_types(node.topic_type_title) # NoType
    THEN topic_types(node.topic_type_title)
    ELSE LET topic_type_name == IF node.topicType = Absent THEN default_name
                                ELSE node.topicType
         IN  IF topic_types(topic_type_name) # NoType
             THEN topic_types(topic_type_name)
             ELSE IF topic_types(default_name) # NoType
             THEN topic_types(default_name)
             ELSE topic_types("Digitale Coach Homepagina")

\* the default_name that _map_homepage, _map_task, _map_step and
\* _map_instruction pass to _get_topic_type
Levels == {"homepage", "task", "step", "instruction"}
DefaultName(level) ==
    CASE level = "homepage"    -> "Digitale Coach Homepagina"
      [] level = "instruction" -> "Digitale Coach Instructie"
      [] OTHER                 -> "Digitale Coach Stap"

\* The values a document gives to topic_type_id, topic_type_title and
\* topicType: none, null, an empty string, a key or a title of the catalog
\* (in the right place or the wrong one), and values the catalog lacks.
TypeIds ==
    { Absent, None, "", "c1225506-63e2-4785-9e51-06a587d54a9c",
      "c3d4e5f6-a7b8-49ca-d1e2-f3a4b5c6d7e8",
      "C3D4E5F6-A7B8-49CA-D1E2-F3A4B5C6D7E8", "Questionnaire" }
TypeTitles ==
    { Absent, None, "Questionnaire", "Digitale Coach Procespagina",
      "questionnaire", "c1225506-63e2-4785-9e51-06a587d54a9c" }
TypeNames ==
    { Absent, None, "Digitale Coach Instructie", "Digitale Coach Homepagina",
      "Onbekend" }

TypedNodes ==
    [topic_type_id : TypeIds, topic_type_title : TypeTitles, topicType : TypeNames]

InitTopicType ==
    /\ NoAuth
    /\ imp = NoImport
    /\ del = NoDelete
    /\ cfg = NoConfig
    /\ \E node \in TypedNodes :
           mapper = [call |-> "none", node |-> node, level |-> "none",
                     ret |-> NoType]

\* one of the four _map_ methods resolves the type of the node
MapperGetTopicType ==
    /\ mapper.call = "none"
    /\ \E level \in Levels :
           mapper' = [mapper EXCEPT !.call = "_get_topic_type",
                                    !.level = level,
                                    !.ret = _get_topic_type(mapper.node, DefaultName(level))]
    /\ UNCHANGED <<authVars, imp, del, cfg>>

NextTopicType == MapperGetTopicType

SpecTopicType == InitTopicType /\ [][NextTopicType]_vars

\* the keys and the titles of the catalog
CatalogKeys == {DEFAULT_TOPIC_TYPES[i].key : i \in DOMAIN DEFAULT_TOPIC_TYPES}
CatalogTitles == {DEFAULT_TOPIC_TYPES[i].title : i \in DOMAIN DEFAULT_TOPIC_TYPES}
Catalog == {DEFAULT_TOPIC_TYPES[i] : i \in DOMAIN DEFAULT_TOPIC_TYPES}

-----------------------------------------------------------------------------
(* map_process.  The TopicNode objects it makes live in a heap, a sequence *)
(* in the order they are made; an object is its place in the heap, and     *)
(* TopicNode.children is a list of such places.                            *)

\* the most tasks, steps and instructions in a process document
MaxTopics == 3

\* A member of a dict whose value is a list or a dict: the key is
\* missing, or it has a value. A list is a sequence, a dict the sequence
\* of its items.
Missing == [absent |-> TRUE, value |-> << >>]
Member(value) == [absent |-> FALSE, value |-> value]

\* The members of a task, step or instruction dict other than its lists:
\* a bare one, one with a type id, a text, tags and relations, and one
\* without id.
Items ==
    { [id |-> "a", title |-> "A", topic_type_id |-> Absent,
       topic_type_title |-> Absent, topicType |-> Absent,
       text |-> Absent, tags |-> Missing, relations |-> Missing],
      [id |-> "b", title |-> "B",
       topic_type_id |-> "c1225506-63e2-4785-9e51-06a587d54a9c",
       topic_type_title |-> Absent, topicType |-> "Onbekend",
       text |-> "txt", tags |-> Member(<<"zz", "aa">>),
       relations |-> Member(<< <<"related", <<"x">> >> >>)],
      [id |-> Absent, title |-> "C", topic_type_id |-> Absent,
       topic_type_title |-> "Questionnaire", topicType |-> Absent,
       text |-> Absent, tags |-> Missing, relations |-> Missing] }

\* the members of the process dict: without id, with a null id, with an
\* empty id, with an id (and then with tags and relations)
Processes ==
    { [id |-> i, title |-> Absent, topic_type_id |-> Absent,
       topic_type_title |-> Absent, topicType |-> Absent,
       text |-> "txt",
       tags |-> IF i = "a" THEN Member(<<"t2", "t1">>) ELSE Missing,
       relations |-> IF i = "a" THEN Member(<< <<"related", <<"y">> >> >>)
                     ELSE Missing] : i \in {Absent, None, "", "a"} }

\* the lists of at most k instructions
RECURSIVE InstructionLists(_)
InstructionLists(k) ==
    IF k <= 0 THEN {<< >>}
    ELSE {<< >>} \cup {<<i>> \o rest : i \in Items, rest \in InstructionLists(k - 1)}

\* the topics a list of steps, or of tasks, maps to
RECURSIVE Size(_)
Size(list) ==
    IF list = << >> THEN 0
    ELSE 1 + Size(Tail(list))
           + (IF "instructions" \in DOMAIN Head(list)
              THEN Len(Head(list).instructions)
              ELSE Size(Head(list).steps))

\* the lists of steps that map to at most k topics
RECURSIVE StepLists(_)
StepLists(k) ==
    IF k <= 0 THEN {<< >>}
    ELSE {<< >>} \cup
         UNION { { <<[node |-> n, instructions |-> l]>> \o rest :
                     rest \in StepLists(k - 1 - Len(l)) } :
                 n \in Items, l \in InstructionLists(k - 1) }

\* the lists of tasks that map to at most k topics
RECURSIVE TaskLists(_)
TaskLists(k) ==
    IF k <= 0 THEN {<< >>}
    ELSE {<< >>} \cup
         UNION { { <<[node |-> n, steps |-> l]>> \o rest :
                     rest \in TaskLists(k - 1 - Size(l)) } :
                 n \in Items, l \in StepLists(k - 1) }

\* the process documents whose tasks and steps map to at most k topics
Documents(k) ==
    UNION { { [node |-> n, tasks |-> t, steps |-> s] :
                s \in StepLists(k - Size(t)) } :
            n \in Processes, t \in TaskLists(k) }

\* dict.get(key, default)
Get(value, default) == IF value = Absent THEN default ELSE value

\* the same with the tags of the node sorted: "aa" before "zz"
GetTagsSorted(member) ==
    IF member.absent THEN << >>
    ELSE IF member.value = <<"zz", "aa">> THEN <<"aa", "zz">> ELSE member.value

\* dict.get("tags", [])
GetTags(member) == IF member.absent THEN << >> ELSE member.value

\* TopicNode(...): a new object, without children
NewTopicNode(id, title, topic_type, parent_id, key, text, tags) ==
    [id |-> id, title |-> title, topic_type |-> topic_type,
     parent_id |-> parent_id,
     metadata |-> [key |-> key, value |-> Get(text, "")],
     children |-> << >>, tags |-> GetTags(tags)]

\* the outcome of a _map_ method: the heap, the object returned and the
\* exception raised
Mapped(heap, node) == [heap |-> heap, node |-> node, exc |-> "none"]
KeyError(heap) == [heap |-> heap, node |-> 0, exc |-> "KeyError"]

\* node.children.append(child) for the child just mapped with outcome c;
\* an exception of the child passes through
Adopt(c, node) ==
    IF c.exc # "none" THEN c
    ELSE Mapped([c.heap EXCEPT ![node].children = Append(@, c.node)], node)

_map_instruction(heap, instr, parent_id) ==
    IF instr.id = Absent \/ instr.title = Absent THEN KeyError(heap)
    ELSE Mapped(Append(heap,
                    NewTopicNode(instr.id, instr.title,
                                 _get_topic_type(instr, "Digitale Coach Instructie"),
                                 parent_id, "content", instr.text, instr.tags)),
                Len(heap) + 1)

\* the instructions get the parent_id of their step
RECURSIVE StepInstructionsAbove(_, _, _)
StepInstructionsAbove(r, instructions, i) ==
    IF r.exc # "none" \/ i > Len(instructions) THEN r
    ELSE StepInstructionsAbove(
             Adopt(_map_instruction(r.heap, instructions[i],
                                    r.heap[r.node].parent_id), r.node),
             instructions, i + 1)

\* _map_step: for instr in instructions, from place i on, r being the
\* outcome so far with the step as its object
RECURSIVE StepInstructions(_, _, _)
StepInstructions(r, instructions, i) ==
    IF r.exc # "none" \/ i > Len(instructions) THEN r
    ELSE StepInstructions(
             Adopt(_map_instruction(r.heap, instructions[i], r.heap[r.node].id),
                   r.node),
             instructions, i + 1)

_map_step(heap, step, parent_id) ==
    IF step.node.id = Absent \/ step.node.title = Absent THEN KeyError(heap)
    ELSE StepInstructions(
             Mapped(Append(heap,
                        NewTopicNode(step.node.id, step.node.title,
                                     _get_topic_type(step.node, "Digitale Coach Stap"),
                                     parent_id, "description", step.node.text,
                                     step.node.tags)),
                    Len(heap) + 1),
             step.instructions, 1)

\* _map_task and _map_homepage: for step in steps, from place i on
RECURSIVE Steps(_, _, _)
Steps(r, steps, i) ==
    IF r.exc # "none" \/ i > Len(steps) THEN r
    ELSE Steps(Adopt(_map_step(r.heap, steps[i], r.heap[r.node].id), r.node),
               steps, i + 1)

_map_task(heap, task, parent_id) ==
    IF task.node.id = Absent \/ task.node.title = Absent THEN KeyError(heap)
    ELSE Steps(
             Mapped(Append(heap,
                        NewTopicNode(task.node.id, task.node.title,
                                     _get_topic_type(task.node, "Digitale Coach Stap"),
                                     parent_id, "description", task.node.text,
                                     task.node.tags)),
                    Len(heap) + 1),
             task.steps, 1)

\* _map_homepage: for task in process.get("tasks", []), from place i on
RECURSIVE Tasks(_, _, _)
Tasks(r, tasks, i) ==
    IF r.exc # "none" \/ i > Len(tasks) THEN r
    ELSE Tasks(Adopt(_map_task(r.heap, tasks[i], r.heap[r.node].id), r.node),
               tasks, i + 1)

_map_homepage(heap, process) ==
    Steps(Tasks(Mapped(Append(heap,
                           NewTopicNode(Get(process.node.id, "dc-home"),
                                        Get(process.node.title, "Digitale Coach"),
                                        _get_topic_type(process.node,
                                                        "Digitale Coach Homepagina"),
                                        None, "description", process.node.text,
                                        process.node.tags)),
                       Len(heap) + 1),
                process.tasks, 1),
          process.steps, 1)

\* return [root_topic], or the exception
Returned(r) ==
    [heap |-> r.heap, exc |-> r.exc,
     ret |-> IF r.exc = "none" THEN << r.node >> ELSE << >>]

map_process(process) == Returned(_map_homepage(<< >>, process))

InitMapper ==
    /\ NoAuth
    /\ imp = NoImport
    /\ del = NoDelete
    /\ cfg = NoConfig
    /\ \E process \in Documents(MaxTopics) :
           mapper = [call |-> "none", process |-> process, heap |-> << >>,
                     exc |-> "none", ret |-> << >>]

MapperMapProcess ==
    /\ mapper.call = "none"
    /\ mapper' = [call |-> "map_process", process |-> mapper.process]
                   @@ map_process(mapper.process)
    /\ UNCHANGED <<authVars, imp, del, cfg>>

NextMapper == MapperMapProcess

SpecMapper == InitMapper /\ [][NextMapper]_vars

-----------------------------------------------------------------------------
\* the places where object c stands in a children list
ChildPlaces(heap, c) ==
    {<<n, k>> \in (1 .. Len(heap)) \X (1 .. Len(heap)) :
        k <= Len(heap[n].children) /\ heap[n].children[k] = c}

(* C13: when map_process returns, it returns a list of one node, whose     *)
(* parent_id is None; the parent_id of every child in a children list is   *)
(* the id of the node that holds the list; every node but the root stands  *)
(* in exactly one place of exactly one children list, the root in none,    *)
(* and a child is always an object made after its parent, so there is no   *)
(* cycle; and there is one node for the process and one for every task,    *)
(* step and instruction of the document.                                   *)
C13_StrictTree ==
    (mapper.call = "map_process" /\ mapper.exc = "none") =>
        /\ Len(mapper.ret) = 1
        /\ mapper.heap[mapper.ret[1]].parent_id = None
        /\ \A n \in DOMAIN mapper.heap :
               \A k \in DOMAIN mapper.heap[n].children :
                   /\ mapper.heap[n].children[k] \in DOMAIN mapper.heap
                   /\ mapper.heap[n].children[k] > n
                   /\ mapper.heap[mapper.heap[n].children[k]].parent_id
                          = mapper.heap[n].id
        /\ \A c \in DOMAIN mapper.heap :
               Cardinality(ChildPlaces(mapper.heap, c))
                   = IF c = mapper.ret[1] THEN 0 ELSE 1
        /\ Len(mapper.heap)
               = 1 + Size(mapper.process.tasks) + Size(mapper.process.steps)

\* a document with a task, a step below it and an instruction below that,
\* two of them with the same id, was mapped
C13_Witness ==
    /\ mapper.call = "map_process"
    /\ mapper.exc = "none"
    /\ \E t, s, i \in DOMAIN mapper.heap :
           /\ <<mapper.ret[1], 1>> \in ChildPlaces(mapper.heap, t)
           /\ <<t, 1>> \in ChildPlaces(mapper.heap, s)
           /\ <<s, 1>> \in ChildPlaces(mapper.heap, i)
           /\ mapper.heap[t].id # mapper.heap[s].id
           /\ mapper.heap[i].id = mapper.heap[t].id

(* C14: _get_topic_type gives an entry of the catalog for every node and   *)
(* every level: the entry with the key topic_type_id if the catalog has    *)
(* that key; else the entry with the title topic_type_title if the         *)
(* catalog has that title; else the entry with the title topicType if the  *)
(* catalog has that title; else the entry of the level's default name.     *)
C14_TopicTypeOrder ==
    mapper.call = "_get_topic_type" =>
        /\ mapper.ret \in Catalog
        /\ IF mapper.node.topic_type_id \in CatalogKeys
           THEN mapper.ret.key = mapper.node.topic_type_id
           ELSE IF mapper.node.topic_type_title \in CatalogTitles
           THEN mapper.ret.title = mapper.node.topic_type_title
           ELSE IF mapper.node.topicType \in CatalogTitles
           THEN mapper.ret.title = mapper.node.topicType
           ELSE mapper.ret.title = DefaultName(mapper.level)

\* a node with the key of one type, the title of another and the legacy
\* name of a third was resolved by its key
C14_Witness ==
    /\ mapper.call = "_get_topic_type"
    /\ mapper.node.topic_type_id \in CatalogKeys
    /\ mapper.node.topic_type_title \in CatalogTitles
    /\ mapper.node.topicType \in CatalogTitles
    /\ mapper.ret.key = mapper.node.topic_type_id
    /\ mapper.ret.title # mapper.node.topic_type_title
    /\ mapper.ret.title # mapper.node.topicType


-----------------------------------------------------------------------------
(* parse_cms_url, src/src/api_client/auth.py.  A URL is the sequence of    *)
(* its pieces between the slashes: piece 1 is what stands before the first *)
(* slash, every later piece stands behind a slash.  None and the empty     *)
(* string, which the callers treat alike (`if cms_url:`), are the URL      *)
(* without pieces.                                                         *)

NoCmsUrl == << >>

\* the most chunks a URL is put together from
MaxChunks == 3

\* the stretches of pieces the URLs are put together from: single pieces, a
\* whole /tenant/T/project/P/acl/A stretch in lower and in mixed case, its
\* two halves, one with an empty T, one whose values are the keywords
Chunks ==
    { << "x" >>,
      << "" >>,
      << "tenant", "T1", "project", "P1", "acl", "A1" >>,
      << "Tenant", "t2", "PROJECT", "p2", "Acl", "a2" >>,
      << "tenant", "T3", "project", "P3" >>,
      << "acl", "A3" >>,
      << "tenant", "", "project", "P1", "acl", "A1" >>,
      << "tenant", "Acl", "project", "TENANT", "acl", "Project" >> }

RECURSIVE Joined(_)
Joined(n) ==
    IF n = 0 THEN {<< >>}
    ELSE Joined(n - 1) \cup {u \o k : u \in Joined(n - 1), k \in Chunks}

Urls == Joined(MaxChunks)

\* str.lower() on the pieces of the model
lower(piece) ==
    CASE piece \in {"Tenant", "TENANT"} -> "tenant"
      [] piece \in {"Project", "PROJECT"} -> "project"
      [] piece \in {"Acl", "ACL"} -> "acl"
      [] piece \in {"T1", "T3"} -> IF piece = "T1" THEN "t1" ELSE "t3"
      [] piece \in {"P1", "P3"} -> IF piece = "P1" THEN "p1" ELSE "p3"
      [] piece \in {"A1", "A3"} -> IF piece = "A1" THEN "a1" ELSE "a3"
      [] OTHER -> piece

\* the keywords are compared as they are written
CaseSensitive(piece, keyword) == piece = keyword

\* re.IGNORECASE on a keyword of the pattern
IgnoreCase(piece, keyword) == lower(piece) = keyword

\* the pattern /tenant/([^/]+)/project/([^/]+)/acl/([^/]+) tried with its
\* first slash in front of piece i
Match(url, i) ==
    /\ i >= 2
    /\ i + 5 <= Len(url)
    /\ IgnoreCase(url[i], "tenant")
    /\ url[i + 1] # ""
    /\ IgnoreCase(url[i + 2], "project")
    /\ url[i + 3] # ""
    /\ IgnoreCase(url[i + 4], "acl")
    /\ url[i + 5] # ""

\* re.search: the pattern is tried from left to right; 0 when it matches
\* nowhere
RECURSIVE search(_, _)
search(url, i) ==
    IF i > Len(url) THEN 0
    ELSE IF Match(url, i) THEN i
    ELSE search(url, i + 1)

\* the groups are returned in lower case
group_lower(url, m, n) == lower(url[m + 2 * n - 1])

\* match.group(n), n = 1, 2, 3
group(url, m, n) == url[m + 2 * n - 1]

\* parse_cms_url
parse_cms_url(url) ==
    LET m == search(url, 1) IN
    IF m = 0
    THEN [exc |-> "ValueError", tenant_id |-> None, project_id |-> None,
          acl_entry_id |-> None]
    ELSE [exc |-> "none", tenant_id |-> group(url, m, 1),
          project_id |-> group(url, m, 2), acl_entry_id |-> group(url, m, 3)]

InitParse ==
    /\ now = 1000
    /\ cache = TokenCacheInit
    /\ cache_file = NoFile
    /\ portal_code = None
    /\ sess = NoSession
    /\ net = << >>
    /\ last = NoCall
    /\ imp = NoImport
    /\ del = NoDelete
    /\ mapper = NoMapper
    /\ \E url \in Urls : cfg = [call |-> "none", url |-> url]

\* parse_cms_url(url)
ParseCmsUrl ==
    /\ cfg.call = "none"
    /\ cfg' = [call |-> "parse_cms_url", url |-> cfg.url] @@ parse_cms_url(cfg.url)
    /\ UNCHANGED <<authVars, imp, del, mapper>>

NextParse == ParseCmsUrl

SpecParse == InitParse /\ [][NextParse]_vars

\* the places of a URL where a stretch /tenant/T/project/P/acl/A with
\* non-empty T, P and A begins, whatever the case of the three keywords
Stretches(url) ==
    {i \in 2 .. Len(url) :
        /\ i + 5 <= Len(url)
        /\ <<lower(url[i]), lower(url[i + 2]), lower(url[i + 4])>>
               = <<"tenant", "project", "acl">>
        /\ \A k \in {1, 3, 5} : url[i + k] # ""}

\* C20: parse_cms_url returns the T, P and A of the (leftmost) stretch
\* /tenant/T/project/P/acl/A of the URL, the keywords matched whatever their
\* case and T, P, A as they are written; it raises ValueError exactly for
\* the URLs without such a stretch.
C20_ParseCmsUrl ==
    cfg.call = "parse_cms_url" =>
        IF Stretches(cfg.url) = {}
        THEN cfg.exc = "ValueError"
        ELSE \E i \in Stretches(cfg.url) :
                /\ \A j \in Stretches(cfg.url) : i <= j
                /\ cfg.exc = "none"
                /\ <<cfg.tenant_id, cfg.project_id, cfg.acl_entry_id>>
                       = <<cfg.url[i + 1], cfg.url[i + 3], cfg.url[i + 5]>>

\* a URL parsed whose keywords are in mixed case and whose values come back
\* as written, behind a stretch that does not match
C20_Witness ==
    /\ cfg.call = "parse_cms_url"
    /\ cfg.exc = "none"
    /\ \E i \in Stretches(cfg.url) :
          /\ i > 2
          /\ cfg.url[i] = "Tenant"
          /\ cfg.tenant_id = "t2"
    /\ \E i \in 2 .. Len(cfg.url) : cfg.url[i] = "tenant" /\ i \notin Stretches(cfg.url)

-----------------------------------------------------------------------------
(* The constructors.  The environment (os.environ after load_dotenv) is a  *)
(* record of the variables the constructors read.                          *)

\* Python's `a or b`
Or(a, b) == IF Truthy(a) THEN a ELSE b

\* `a or b` on URLs
OrUrl(a, b) == IF a # NoCmsUrl THEN a ELSE b

\* URLs a caller or the environment gives: none, one that does not parse,
\* and the URL of a CMS page
BadUrl == << "https:", "", "company.askdelphi.com", "cms" >>
CmsUrl ==
    << "https:", "", "company.askdelphi.com", "cms",
       "tenant", "Tu", "project", "Pu", "acl", "Au", "edit" >>

Environments ==
    [ASKDELPHI_CMS_URL : {NoCmsUrl, CmsUrl},
     ASKDELPHI_TENANT_ID : {None, "Te"},
     ASKDELPHI_PROJECT_ID : {None, "Pe"},
     ASKDELPHI_ACL_ENTRY_ID : {None, "Ae"},
     ASKDELPHI_PORTAL_CODE : {None, "code"},
     ASKDELPHI_BASE_URL : {None},
     ASKDELPHI_TENANT : {None},
     ASKDELPHI_ACL : {None}]

\* the value parsed from the URL comes before the explicit argument
CombineParsedFirst(explicit, parsed) == Or(parsed, explicit)

\* tenant_id or parsed_tenant (lines 267-269)
Combine(explicit, parsed) == Or(explicit, parsed)

\* AskDelphiAuth.__init__(cms_url, tenant_id, project_id, acl_entry_id) in
\* the environment env, with the cache file `file` on disk: the exception
\* raised or the fields of the object
AskDelphiAuth__init__(cms_url, tenant_id, project_id, acl_entry_id, env, file) ==
    LET url == OrUrl(cms_url, env.ASKDELPHI_CMS_URL)
        parsed == parse_cms_url(url)
        ids == IF url # NoCmsUrl /\ parsed.exc = "none"
               THEN [tenant_id |-> Combine(tenant_id, parsed.tenant_id),
                     project_id |-> Combine(project_id, parsed.project_id),
                     acl_entry_id |-> Combine(acl_entry_id, parsed.acl_entry_id)]
               ELSE [tenant_id |-> Or(tenant_id, env.ASKDELPHI_TENANT_ID),
                     project_id |-> Or(project_id, env.ASKDELPHI_PROJECT_ID),
                     acl_entry_id |-> Or(acl_entry_id, env.ASKDELPHI_ACL_ENTRY_ID)]
        missing == {m \in DOMAIN ids : ~Truthy(ids[m])}
    IN IF missing # {}
       THEN [exc |-> "ValueError", ids |-> ids, portal_code |-> None,
             cache |-> TokenCacheInit, loaded |-> FALSE]
       ELSE [exc |-> "none", ids |-> ids, portal_code |-> env.ASKDELPHI_PORTAL_CODE,
             cache |-> load(TokenCacheInit, file).cache, loaded |-> TRUE]

\* what a caller passes for an id
IdArguments == {None, "", "Tx"}

InitConstruct ==
    /\ now = 1000
    /\ cache = TokenCacheInit
    /\ cache_file \in InitialFiles
    /\ portal_code = None
    /\ sess = NoSession
    /\ net = << >>
    /\ last = NoCall
    /\ imp = NoImport
    /\ del = NoDelete
    /\ mapper = NoMapper
    /\ \E cms_url \in {NoCmsUrl, BadUrl, CmsUrl}, env \in Environments :
       \E tenant_id, project_id, acl_entry_id \in IdArguments :
           cfg = [call |-> "none", cms_url |-> cms_url, tenant_id |-> tenant_id,
                  project_id |-> project_id, acl_entry_id |-> acl_entry_id, env |-> env,
                  exc |-> "none",
                  ids |-> [tenant_id |-> None, project_id |-> None, acl_entry_id |-> None],
                  loaded |-> FALSE]

\* AskDelphiAuth(cms_url, tenant_id, project_id, acl_entry_id)
AuthConstruct ==
    /\ cfg.call = "none"
    /\ LET r == AskDelphiAuth__init__(cfg.cms_url, cfg.tenant_id, cfg.project_id,
                                      cfg.acl_entry_id, cfg.env, cache_file)
       IN /\ cfg' = [cfg EXCEPT !.call = "AskDelphiAuth", !.exc = r.exc, !.ids = r.ids,
                                !.loaded = r.loaded]
          /\ cache' = r.cache
          /\ portal_code' = r.portal_code
    /\ UNCHANGED <<now, cache_file, sess, net, last, imp, del, mapper>>

NextConstruct == AuthConstruct

SpecConstruct == InitConstruct /\ [][NextConstruct]_vars

\* the values one id can be taken from: the explicit argument, the CMS URL
\* (argument or environment) where it parses, and the environment
Sources(argument, member, variable) ==
    LET parsed == parse_cms_url(OrUrl(cfg.cms_url, cfg.env.ASKDELPHI_CMS_URL)) IN
    {argument, cfg.env[variable]} \cup (IF parsed.exc = "none" THEN {parsed[member]} ELSE {})

StillEmpty ==
    \/ \A v \in Sources(cfg.tenant_id, "tenant_id", "ASKDELPHI_TENANT_ID") : ~Truthy(v)
    \/ \A v \in Sources(cfg.project_id, "project_id", "ASKDELPHI_PROJECT_ID") : ~Truthy(v)
    \/ \A v \in Sources(cfg.acl_entry_id, "acl_entry_id", "ASKDELPHI_ACL_ENTRY_ID") : ~Truthy(v)

\* C17: constructing AskDelphiAuth raises ValueError exactly when tenant id,
\* project id or ACL entry id is empty in the explicit argument, in the
\* parsed CMS URL and in the environment; it raises before the cache file is
\* loaded and without a network call; when it succeeds the three ids are
\* non-empty and an explicit argument stands before the parsed value.
C17_ConstructorFailsFast ==
    cfg.call = "AskDelphiAuth" =>
        /\ cfg.exc = (IF StillEmpty THEN "ValueError" ELSE "none")
        /\ cfg.exc = "ValueError" =>
              /\ ~cfg.loaded
              /\ cache = TokenCacheInit
              /\ net = << >>
        /\ cfg.exc = "none" =>
              /\ \A m \in DOMAIN cfg.ids : Truthy(cfg.ids[m])
              /\ Truthy(cfg.tenant_id) => cfg.ids.tenant_id = cfg.tenant_id
              /\ Truthy(cfg.project_id) => cfg.ids.project_id = cfg.project_id
              /\ Truthy(cfg.acl_entry_id) => cfg.ids.acl_entry_id = cfg.acl_entry_id

\* a construction that succeeds with an explicit tenant beside a CMS URL
\* that parses, the other ids taken from the URL
C17_Witness ==
    /\ cfg.call = "AskDelphiAuth"
    /\ cfg.exc = "none"
    /\ cfg.cms_url = CmsUrl
    /\ cfg.ids = [tenant_id |-> "Tx", project_id |-> "Pu", acl_entry_id |-> "Au"]
    /\ cache.access_token = "acc1"

\* a construction that fails for a missing ACL entry id although a cache
\* file with tokens is on disk
C17_WitnessRaise ==
    /\ cfg.call = "AskDelphiAuth"
    /\ cfg.exc = "ValueError"
    /\ cfg.cms_url = BadUrl
    /\ Truthy(cfg.ids.tenant_id) /\ Truthy(cfg.ids.project_id)
    /\ cache_file.state = "object"

-----------------------------------------------------------------------------
(* The session in the context its constructor gives it.  The acl argument  *)
(* is a list or None: a record of the list and of whether it is None.      *)

AclNone == [none |-> TRUE, list |-> << >>]
AclList(list) == [none |-> FALSE, list |-> list]

\* AskDelphiSession.__init__(base_url, tenant, acl, project_id, cms_url,
\* use_auth_cache) in the environment env, with the cache file `file` on
\* disk: the session, and the cache and portal code of its auth manager
AskDelphiSession__init__(base_url, tenant, acl, project_id, cms_url, use_auth_cache, env, file) ==
    LET url == OrUrl(cms_url, env.ASKDELPHI_CMS_URL)
        parsed == parse_cms_url(url)
        ok == url # NoCmsUrl /\ parsed.exc = "none"
        tenant1 == IF ok THEN Or(tenant, parsed.tenant_id) ELSE tenant
        project1 == IF ok THEN Or(project_id, parsed.project_id) ELSE project_id
        acl1 == IF ok /\ acl.list = << >> THEN AclList(<<parsed.acl_entry_id>>) ELSE acl
        tenant2 == Or(tenant1, env.ASKDELPHI_TENANT)
        project2 == Or(project1, env.ASKDELPHI_PROJECT_ID)
        acl2 == IF acl1.none
                THEN IF Truthy(env.ASKDELPHI_ACL) THEN <<env.ASKDELPHI_ACL>> ELSE << >>
                ELSE acl1.list
        auth == IF use_auth_cache /\ Truthy(tenant2) /\ Truthy(project2) /\ acl2 # << >>
                THEN AskDelphiAuth__init__(url, tenant2, project2, acl2[1], env, file)
                ELSE [exc |-> "none", portal_code |-> None, cache |-> TokenCacheInit,
                      loaded |-> FALSE]
    IN [sess |-> [auth_manager |-> auth.loaded, session_token |-> None, token_expiry |-> 0,
                  base_url |-> Or(base_url, env.ASKDELPHI_BASE_URL),
                  tenant |-> tenant2, project_id |-> project2, acl |-> acl2],
        cache |-> auth.cache,
        portal_code |-> auth.portal_code]

SessionEnvironments ==
    [ASKDELPHI_CMS_URL : {NoCmsUrl},
     ASKDELPHI_TENANT_ID : {None},
     ASKDELPHI_PROJECT_ID : {None},
     ASKDELPHI_ACL_ENTRY_ID : {None, "Ae"},
     ASKDELPHI_PORTAL_CODE : {"code"},
     ASKDELPHI_BASE_URL : {None},
     ASKDELPHI_TENANT : {None},
     ASKDELPHI_ACL : {None, "Ae"}]

\* the cache file the constructor of a session finds
SessionFiles == {f \in InitialFiles : f.writable /\ f.data.refresh_token.t # "string"}

\* a session as its constructor leaves it
InitContext ==
    /\ now = 1000
    /\ cache_file \in SessionFiles
    /\ \E base_url \in {None, "https://api"}, tenant \in {None, "Tx"},
          project_id \in {None, "Px"}, cms_url \in {NoCmsUrl, CmsUrl},
          acl \in {AclNone, AclList(<< >>), AclList(<<"">>), AclList(<<"Ax">>)},
          use_auth_cache \in BOOLEAN, env \in SessionEnvironments :
          LET r == AskDelphiSession__init__(base_url, tenant, acl, project_id, cms_url,
                                            use_auth_cache, env, cache_file)
          IN /\ sess = r.sess
             /\ cache = r.cache
             /\ portal_code = r.portal_code
             /\ cfg = [call |-> "AskDelphiSession", base_url |-> base_url,
                       tenant |-> tenant, acl |-> acl, project_id |-> project_id,
                       cms_url |-> cms_url, use_auth_cache |-> use_auth_cache, env |-> env]
    /\ net = << >>
    /\ last = NoCall
    /\ imp = NoImport
    /\ del = NoDelete
    /\ mapper = NoMapper

NextContext == SessionRequest

SpecContext == InitContext /\ [][NextContext]_vars

\* C15: in every CMS request that is sent, each of the placeholders
\* {tenantId}, {projectId} and {aclEntryId} of the path has been replaced by
\* a non-empty value of the session's context.
C15_PlaceholdersReplaced ==
    \A k \in DOMAIN net :
        net[k].ep = "cms" =>
            \A i \in DOMAIN TopicPath :
                TopicPath[i] \in Placeholders =>
                    net[k].url[i + 1] \notin Placeholders \cup {"", None}

\* C15, the rest of the model: a session whose tenant, project id and ACL
\* entries are all non-empty sends every placeholder replaced by its value
C15_CompleteContextReplaced ==
    (Truthy(sess.tenant) /\ Truthy(sess.project_id) /\ sess.acl # << >>) =>
        \A k \in DOMAIN net :
            net[k].ep = "cms" =>
                SubSeq(net[k].url, 2, Len(net[k].url))
                    = << "v1", "tenant", sess.tenant, "project", sess.project_id,
                         "acl", sess.acl[1], "topic" >>

-----------------------------------------------------------------------------
(* Claims about the token authority, checked in SpecAuth *)

\* C16 as stated: whenever authenticate fails for want of a portal code, it
\* has sent no request.
C16_FailsBeforeNetwork ==
    (last.op = "authenticate" /\ last.exc = "ValueError") => net = << >>

\* C16: authenticate fails for want of a portal code only after the cached
\* tokens were tried: it has sent nothing when the cache holds no access
\* token or no publication URL, and otherwise exactly one request, the fetch
\* of the editing API token; it never sends the portal code exchange.
C16_FailsAfterCachedTokens ==
    (last.op = "authenticate" /\ last.exc = "ValueError") =>
        /\ ~Truthy(portal_code)
        /\ \A k \in DOMAIN net : net[k].ep = "EditingApiToken"
        /\ Len(net) = (IF Truthy(cache.access_token) /\ Truthy(cache.publication_url)
                       THEN 1 ELSE 0)

\* authenticate failed for want of a portal code after the cached access
\* token was refused
C16_Witness ==
    /\ last.op = "authenticate"
    /\ last.exc = "ValueError"
    /\ Len(net) = 1
    /\ net[1].status = 401

\* authenticate failed for want of a portal code with an empty cache
C16_WitnessEmptyCache ==
    /\ last.op = "authenticate"
    /\ last.exc = "ValueError"
    /\ ~Truthy(cache.access_token)
    /\ net = << >>

\* the places in a log of requests that went to endpoint ep
To(log, ep) == {k \in DOMAIN log : log[k].ep = ep}

\* C18: a call of get_api_token made while the cached API token is valid
\* returns that token, sends no request, and leaves the cache and the cache
\* file as they were.
C18_ValidTokenReused ==
    [][(last = NoCall /\ last'.op = "get_api_token" /\ is_api_token_valid(cache, now))
          => /\ last'.exc = "none"
             /\ last'.tok = cache.api_token
             /\ net' = << >>
             /\ cache' = cache
             /\ cache_file' = cache_file]_vars

\* get_api_token returned the valid cached token of an earlier fetch
C18_Witness ==
    /\ last.op = "get_api_token"
    /\ last.exc = "none"
    /\ net = << >>
    /\ is_api_token_valid(cache, now)
    /\ last.tok = cache.api_token

\* C19: a call of get_api_token made while the cached API token is missing
\* or not valid sends one refresh, before anything else, when the cache
\* holds a refresh token (and a publication URL to send it to), and none
\* otherwise; whatever becomes of the refresh, the fetch of the editing
\* token follows exactly once (as one request when the cache holds an access
\* token and a publication URL, else as its immediate failure); a failure
\* of the fetch is raised, a failure of the refresh never; on success the
\* token returned is the one in the answer to this fetch, now cached.
C19_RefreshThenFetch ==
    [][(last = NoCall /\ last'.op = "get_api_token" /\ ~is_api_token_valid(cache, now))
          => /\ DOMAIN net' = To(net', "refresh") \cup To(net', "EditingApiToken")
             /\ To(net', "refresh")
                    = (IF Truthy(cache.refresh_token) /\ Truthy(cache.publication_url)
                       THEN {1} ELSE {})
             /\ Cardinality(To(net', "EditingApiToken"))
                    = (IF Truthy(cache'.access_token) /\ Truthy(cache'.publication_url)
                       THEN 1 ELSE 0)
             /\ To(net', "EditingApiToken") = {} => last'.exc = "NoAccessToken"
             /\ last'.exc \notin {"RefreshFailed", "NoRefreshToken"}
             /\ \A k \in To(net', "EditingApiToken") :
                   IF /\ net'[k].status = 200
                      /\ net'[k].body # "text/html"
                      /\ StartsWithJwtPrefix(net'[k].tok)
                   THEN /\ last'.exc = "none"
                        /\ last'.tok = net'[k].tok
                        /\ cache'.api_token = net'[k].tok
                   ELSE last'.exc \in {"RequestFailed", "HttpError", "HtmlReceived",
                                       "InvalidTokenFormat"}]_vars

\* get_api_token found a stale token, failed to refresh, fetched a new token
\* and returned it
C19_Witness ==
    /\ last.op = "get_api_token"
    /\ last.exc = "none"
    /\ Len(net) = 2
    /\ net[1].ep = "refresh" /\ net[1].status # 200
    /\ net[2].ep = "EditingApiToken"
    /\ last.tok = net[2].tok

-----------------------------------------------------------------------------
(* The credential store and its file: TokenCache objects bound to one      *)
(* path, on which save and load are called between assignments.            *)

\* what the three fields of a cache hold
StoredValues == {None, "", "acc1"}

\* the files a cache can meet at its path
StoreFiles ==
    { [state |-> st, data |-> NoData, writable |-> w] :
        st \in {"missing", "malformed", "notdict"}, w \in BOOLEAN }
    \cup { [state |-> "object", writable |-> TRUE,
            data |-> [access_token |-> a, refresh_token |-> JsonNull,
                      publication_url |-> JsonString("https://pub.example")]]
           : a \in {JsonAbsent, JsonNull, JsonString("acc0")} }

InitStore ==
    /\ now = 1000
    /\ cache = TokenCacheInit
    /\ cache_file \in StoreFiles
    /\ portal_code = None
    /\ sess = NoSession
    /\ net = << >>
    /\ last = NoCall
    /\ imp = NoImport
    /\ del = NoDelete
    /\ mapper = NoMapper
    /\ cfg = NoConfig

\* cache.access_token = ...; cache.refresh_token = ...; cache.publication_url = ...
StoreAssign ==
    /\ \E a, r, u \in StoredValues :
          cache' = [cache EXCEPT !.access_token = a, !.refresh_token = r,
                                 !.publication_url = u]
    /\ last' = [op |-> "assign", ret |-> FALSE]
    /\ UNCHANGED <<now, cache_file, portal_code, sess, net>>
    /\ UNCHANGED treeVars

\* cache.save()
StoreSave ==
    /\ cache_file' = save(cache, cache_file, now)
    /\ last' = [op |-> "save", ret |-> FALSE]
    /\ UNCHANGED <<now, cache, portal_code, sess, net>>
    /\ UNCHANGED treeVars

\* cache = TokenCache(cache_file): a new cache bound to the same path
StoreNew ==
    /\ cache' = TokenCacheInit
    /\ last' = [op |-> "TokenCache", ret |-> FALSE]
    /\ UNCHANGED <<now, cache_file, portal_code, sess, net>>
    /\ UNCHANGED treeVars

\* cache.load()
StoreLoad ==
    /\ LET r == load(cache, cache_file) IN
          /\ cache' = r.cache
          /\ last' = [op |-> "load", ret |-> r.ret]
    /\ UNCHANGED <<now, cache_file, portal_code, sess, net>>
    /\ UNCHANGED treeVars

NextStore == StoreAssign \/ StoreSave \/ StoreNew \/ StoreLoad

SpecStore == InitStore /\ [][NextStore]_vars

\* the three persisted fields of a cache
Persisted(c) == <<c.access_token, c.refresh_token, c.publication_url>>

\* C21: once save() has written the file, load() on a new TokenCache bound
\* to the same file returns True and yields exactly the access_token,
\* refresh_token and publication_url of the cache that was saved.
C21_RoundTrip ==
    [][(last'.op = "save" /\ cache_file.writable)
          => /\ load(TokenCacheInit, cache_file').ret
             /\ Persisted(load(TokenCacheInit, cache_file').cache) = Persisted(cache)]_vars

\* a new cache has loaded the file and holds an access token, an empty
\* refresh token and no publication URL, as the file says
C21_Witness ==
    /\ last.op = "load"
    /\ last.ret
    /\ Persisted(cache) = <<"acc1", "", None>>
    /\ cache_file.data.refresh_token = JsonString("")
    /\ cache_file.data.publication_url = JsonNull

\* C22: load never raises; at a path that is missing or whose content is
\* malformed it returns False and leaves access_token, refresh_token and
\* publication_url as they were.
C22_LoadNeverRaises ==
    [][(last'.op = "load" /\ cache_file.state \in {"missing", "malformed", "notdict"})
          => /\ ~last'.ret
             /\ Persisted(cache') = Persisted(cache)]_vars

\* a cache that holds tokens was told to load a malformed file
C22_Witness ==
    /\ last.op = "load"
    /\ ~last.ret
    /\ cache_file.state = "malformed"
    /\ cache.access_token = "acc1"

-----------------------------------------------------------------------------
(* Claims about authenticate, checked in SpecAuth *)

\* the answers of the portal to this call that carry accessToken and url
Exchanged ==
    {net[k].data : k \in {j \in DOMAIN net : /\ net[j].ep = "registration"
                                              /\ net[j].status = 200
                                              /\ Truthy(net[j].data.accessToken)
                                              /\ net[j].data.url # NoUrl}}

\* C23: when authenticate has exchanged the portal code and the answer
\* carries accessToken and url, the cache holds the accessToken and the
\* refreshToken of the answer and scheme://host of its url, and the cache
\* file (where it can be written) holds these three values, whether the
\* fetch of the editing token that follows succeeds or fails.
C23_ExchangePersisted ==
    last.op = "authenticate" =>
        \A data \in Exchanged :
            /\ cache.access_token = data.accessToken
            /\ cache.refresh_token = data.refreshToken
            /\ cache.publication_url = data.url.scheme \o "://" \o data.url.netloc
            /\ cache_file.writable =>
                  /\ cache_file.state = "object"
                  /\ get(cache_file.data.access_token) = data.accessToken
                  /\ get(cache_file.data.refresh_token) = data.refreshToken
                  /\ get(cache_file.data.publication_url)
                         = data.url.scheme \o "://" \o data.url.netloc

\* authenticate exchanged the code, the fetch of the editing token was
\* refused, and the tokens of the exchange are in the file
C23_Witness ==
    /\ last.op = "authenticate"
    /\ last.exc = "HttpError"
    /\ Exchanged # {}
    /\ Len(net) >= 2
    /\ net[Len(net)].ep = "EditingApiToken"
    /\ net[Len(net) - 1].ep = "registration"
    /\ cache_file.data.access_token = JsonString("acc1")
    /\ cache_file.data.publication_url = JsonString("https://pub.example")

-----------------------------------------------------------------------------
(* Claims about what a mapped node carries, checked in SpecMapper *)

\* the nodes of a document in the order map_process makes their objects,
\* each with its level
Instructions(list) ==
    [k \in DOMAIN list |-> [node |-> list[k], level |-> "instruction"]]

RECURSIVE StepNodes(_)
StepNodes(list) ==
    IF list = << >> THEN << >>
    ELSE <<[node |-> Head(list).node, level |-> "step"]>>
             \o Instructions(Head(list).instructions) \o StepNodes(Tail(list))

RECURSIVE TaskNodes(_)
TaskNodes(list) ==
    IF list = << >> THEN << >>
    ELSE <<[node |-> Head(list).node, level |-> "task"]>>
             \o StepNodes(Head(list).steps) \o TaskNodes(Tail(list))

InputNodes(process) ==
    <<[node |-> process.node, level |-> "homepage"]>>
        \o TaskNodes(process.tasks) \o StepNodes(process.steps)

\* the metadata key of a level
MetadataKey(level) == IF level = "instruction" THEN "content" ELSE "description"

\* every object of the heap has the tags and the metadata key of its input
TagsAndKeys(heap, input) ==
    /\ Len(heap) = Len(input)
    /\ \A n \in DOMAIN heap :
           /\ heap[n].tags = IF input[n].node.tags.absent THEN << >>
                              ELSE input[n].node.tags.value
           /\ DOMAIN heap[n].metadata = {"key", "value"}
           /\ heap[n].metadata.key = MetadataKey(input[n].level)

\* every object of the heap has the relations of its input, where the
\* input has relations
RelationsCarried(heap, input) ==
    /\ Len(heap) = Len(input)
    /\ \A n \in DOMAIN heap :
           ~input[n].node.relations.absent =>
               /\ "relations" \in DOMAIN heap[n]
               /\ heap[n].relations = input[n].node.relations.value

\* C24: for every node of the input document the mapped TopicNode has the
\* tags of the input in the same order and, when the input node has a
\* relations map, the same relations map; homepage, task and step nodes
\* have metadata with the one key description, instruction nodes with the
\* one key content.
C24_NodesCarryInput ==
    (mapper.call = "map_process" /\ mapper.exc = "none") =>
        /\ TagsAndKeys(mapper.heap, InputNodes(mapper.process))
        /\ RelationsCarried(mapper.heap, InputNodes(mapper.process))

\* the part of C24 about tags and metadata keys
C24_TagsAndMetadataCarried ==
    (mapper.call = "map_process" /\ mapper.exc = "none") =>
        TagsAndKeys(mapper.heap, InputNodes(mapper.process))

\* a document whose process, task, step and instruction all have tags was
\* mapped
C24_TagsWitness ==
    /\ mapper.call = "map_process"
    /\ mapper.exc = "none"
    /\ \E t, s, i \in DOMAIN mapper.heap :
           /\ <<mapper.ret[1], 1>> \in ChildPlaces(mapper.heap, t)
           /\ <<t, 1>> \in ChildPlaces(mapper.heap, s)
           /\ <<s, 1>> \in ChildPlaces(mapper.heap, i)
           /\ mapper.heap[mapper.ret[1]].tags = <<"t2", "t1">>
           /\ mapper.heap[t].tags = <<"zz", "aa">>
           /\ mapper.heap[s].tags = <<"zz", "aa">>
           /\ mapper.heap[i].tags = <<"zz", "aa">>
           /\ mapper.heap[i].metadata.key = "content"

-----------------------------------------------------------------------------
(* The import under the setting SKIP_CHECKOUT_CHECKIN of the environment.  *)
(* The setting is there before the import starts and does not change; the  *)
(* steps of the import are those of SpecImport.                            *)

\* config.env: the module attribute SKIP_CHECKOUT_CHECKIN
Env == {[call |-> "none", SKIP_CHECKOUT_CHECKIN |-> b] : b \in BOOLEAN}

InitEnvImport ==
    /\ NoAuth
    /\ del = NoDelete
    /\ mapper = NoMapper
    /\ cfg \in Env
    /\ \E p \in Forests, first \in 0 .. 3 :
           imp = [status |-> "idle", parent |-> p, first |-> first, stack |-> << >>,
                  pc |-> Nothing, vid |-> None, log |-> << >>, faults |-> 0]

SpecEnvImport == InitEnvImport /\ [][NextImport]_vars

\* the calls op made for topic n
CallsOf(op, n) == {i \in DOMAIN Calls : Calls[i].op = op /\ Calls[i].node = n}

\* every topic got one checkout and one checkin
OneBracketEach ==
    \A n \in Nodes :
        Cardinality(CallsOf("checkout", n)) = 1 /\ Cardinality(CallsOf("checkin", n)) = 1

\* no topic got a checkout or a checkin, and the create call of a topic
\* with content is followed at once by its part write
NoBracket ==
    /\ \A i \in DOMAIN Calls : Calls[i].op \notin {"checkout", "checkin"}
    /\ \A i \in DOMAIN Calls :
           (Calls[i].op = "create"
                /\ "content" \in Metadata(TopicNode(Calls[i].node, imp.first))) =>
               /\ i < Len(Calls)
               /\ Calls[i + 1].op = "update_part"
               /\ Calls[i + 1].node = Calls[i].node

\* C25: when SKIP_CHECKOUT_CHECKIN is set, an import that has returned has
\* made no checkout and no checkin call, and the part write of every topic
\* with content came directly after the topic's create call; when it is
\* not set, every topic got exactly one checkout and one checkin.
C25_SkipCheckoutCheckin ==
    imp.status = "returned" =>
        IF cfg.SKIP_CHECKOUT_CHECKIN THEN NoBracket ELSE OneBracketEach

\* what the importer does whatever the setting: an import that has
\* returned has given every topic exactly one checkout and one checkin
C25_AlwaysBracketed ==
    imp.status = "returned" => OneBracketEach

\* an import of topics with content has returned with the setting set
C25_SetWitness ==
    /\ imp.status = "returned"
    /\ cfg.SKIP_CHECKOUT_CHECKIN
    /\ \E i \in DOMAIN Calls : Calls[i].op = "update_part"

-----------------------------------------------------------------------------
(* Claims about the content part, checked in SpecImport *)

\* the content of topic n in this import, if it has one
HasContent(n) == "content" \in Metadata(TopicNode(n, imp.first))

\* the create or the checkout of topic n was answered with a version id
HasVersion(n) ==
    \E i \in DOMAIN Calls :
        /\ Calls[i].op = "checkout"
        /\ Calls[i].node = n
        /\ Calls[i].versioned

\* every part update is for a topic with content and carries that content,
\* and no topic gets two
PartUpdatesCarryContent ==
    \A i \in DOMAIN Calls :
        Calls[i].op = "update_part" =>
            /\ HasContent(Calls[i].node)
            /\ Calls[i].text = Content(TopicNode(Calls[i].node, imp.first))
            /\ CallsOf("update_part", Calls[i].node) = {i}

\* C26, as stated: a part update is issued for a topic exactly when its
\* metadata has the key content, with that content as its text; so when
\* the import has returned, every topic with content (every instruction of
\* a mapped document) has got exactly one and no other topic has got one.
C26_PartUpdateIffContent ==
    /\ PartUpdatesCarryContent
    /\ imp.status = "returned" =>
           \A n \in Nodes : HasContent(n) <=> CallsOf("update_part", n) # {}

\* C26, amended: a part update is issued for a topic exactly when its
\* metadata has the key content and the answer to its create or to its
\* checkout carried a topic version id, with that content as its text (the
\* empty text included); a topic with content whose create and checkout
\* were both answered without a version id gets none.
C26_PartUpdateIffContentAndVersion ==
    /\ PartUpdatesCarryContent
    /\ imp.status = "returned" =>
           \A n \in Nodes :
               (HasContent(n) /\ HasVersion(n)) <=> CallsOf("update_part", n) # {}

\* an import has returned in which a topic with empty content got its
\* part, a topic with content got none, and a topic without content and
\* with a version id got none
C26_Witness ==
    /\ imp.status = "returned"
    /\ \E b, c, d \in Nodes :
           /\ \E i \in CallsOf("update_part", b) : Calls[i].text = ""
           /\ HasContent(c) /\ CallsOf("update_part", c) = {}
           /\ ~HasContent(d) /\ HasVersion(d)

-----------------------------------------------------------------------------
(* Claims about the re-authentication of _request, checked in SpecSession *)

\* the places of the requests to the CMS among the requests of the call
CmsAt == {k \in DOMAIN net : net[k].ep = "cms"}

\* request j is the last request for a token before request k, it was
\* answered with a token, and request k carries that token
TokenFrom(j, k) ==
    IF sess.auth_manager
    THEN /\ net[j].ep = "EditingApiToken"
         /\ net[j].status = 200
         /\ \A i \in j + 1 .. k - 1 : net[i].ep # "EditingApiToken"
         /\ net[k].tok = net[j].tok
    ELSE /\ net[j].ep = "auth/session"
         /\ net[j].method = "POST"
         /\ Ok(net[j].status)
         /\ \A i \in j + 1 .. k - 1 : net[i].ep # "auth/session"
         /\ net[k].bearer = net[j].body

\* C27: in _request a second request to the CMS follows only a first one
\* answered 401, and between the two a request for a new token was sent
\* and answered (POST /auth/session without an auth manager, the fetch of
\* the editing API token with one), whose token the second request
\* carries; when the first answer is 401 and no second request was sent,
\* the call has raised the error of the re-authentication.
C27_ReauthBeforeRetry ==
    last.op = "_request" =>
        /\ \A k1, k2 \in CmsAt :
               k1 < k2 => /\ net[k1].status = 401
                          /\ \E j \in k1 + 1 .. k2 - 1 : TokenFrom(j, k2)
        /\ \A k1 \in CmsAt :
               (net[k1].status = 401 /\ CmsAt = {k1}) =>
                   /\ last.exc # "none"
                   /\ last.exc = "AskDelphiAuthError" =>
                          /\ k1 < Len(net)
                          /\ last.status = net[Len(net)].status
                          /\ last.status # 401

\* with an auth manager, a request was answered 401, the cached tokens got
\* a new API token that was about to expire, a second one was fetched and
\* the request was sent again with the second
C27_Witness ==
    /\ last.op = "_request"
    /\ sess.auth_manager
    /\ \E k1, k2 \in CmsAt :
           /\ k1 + 2 < k2
           /\ net[k2 - 2].ep = "EditingApiToken"
           /\ net[k2 - 1].ep = "EditingApiToken"
           /\ net[k2 - 2].tok # net[k2 - 1].tok
           /\ net[k2].tok = net[k2 - 1].tok
           /\ net[k2].tok # net[k1].tok

\* a request was answered 401 and the re-authentication failed
C27_WitnessFailed ==
    /\ last.op = "_request"
    /\ \E k1 \in CmsAt : net[k1].status = 401 /\ CmsAt = {k1}
    /\ Len(net) > 1
    /\ net[Len(net)].ep # "cms"

\* the first request to the CMS among the requests a call has sent
FirstCms(log) == CHOOSE k \in DOMAIN log : log[k].ep = "cms" /\ \A j \in 1 .. k - 1 : log[j].ep # "cms"

\* a call of _request whose first request to the CMS got an answer that is
\* neither 401 nor ok
RefusedOnce(l, log) ==
    /\ l.op = "_request"
    /\ \E k \in DOMAIN log : log[k].ep = "cms"
    /\ log[FirstCms(log)].status \notin {0, 401}
    /\ ~Ok(log[FirstCms(log)].status)

\* C28: when the first answer of the CMS to a request of _request is not
\* ok and not 401, that request is the only one sent to the CMS and the
\* last request of the call (no re-authentication follows it), the call
\* raises AskDelphiAuthError with the status and body of the answer, and
\* the session token, its expiry, the token cache and its file are as they
\* were when the request was sent: unchanged by the call when no token
\* request preceded it, and else holding the token acquired for it.
C28_NoRetryOnOtherErrors ==
    [][RefusedOnce(last', net') =>
          /\ {k \in DOMAIN net' : net'[k].ep = "cms"} = {Len(net')}
          /\ last'.exc = "AskDelphiAuthError"
          /\ last'.status = net'[Len(net')].status
          /\ last'.body = net'[Len(net')].body
          /\ Len(net') = 1 =>
                 cache' = cache /\ sess' = sess /\ cache_file' = cache_file
          /\ Len(net') > 1 =>
                 IF sess.auth_manager
                 THEN /\ sess' = sess
                      /\ net'[Len(net') - 1].ep = "EditingApiToken"
                      /\ cache'.api_token = net'[Len(net') - 1].tok
                      /\ net'[Len(net')].tok = cache'.api_token
                 ELSE /\ cache' = cache /\ cache_file' = cache_file
                      /\ Len(net') = 2
                      /\ net'[1].ep = "auth/session"
                      /\ sess'.session_token = net'[1].body
                      /\ net'[2].bearer = sess'.session_token]_vars

\* a request sent with a session token that was still good was answered
\* 500: the call raised and the session is as it was
C28_Witness ==
    /\ last.op = "_request"
    /\ ~sess.auth_manager
    /\ Len(net) = 1
    /\ net[1].ep = "cms"
    /\ net[1].status = 500
    /\ last.exc = "AskDelphiAuthError"
    /\ last.status = 500
    /\ last.body = "error"
    /\ Truthy(sess.session_token)

-----------------------------------------------------------------------------
(* Claims about the API token of the cache, checked in SpecAuth *)

\* the fetches of the editing API token among requests that passed the
\* checks: answered ok, not as HTML, with a token that starts with eyJ
GoodFetches(log) ==
    {k \in DOMAIN log : /\ log[k].ep = "EditingApiToken"
                        /\ Ok(log[k].status)
                        /\ log[k].body # "text/html"
                        /\ StartsWithJwtPrefix(log[k].tok)}

\* the fetches that did not
BadFetches(log) ==
    {k \in DOMAIN log : log[k].ep = "EditingApiToken"} \ GoodFetches(log)

\* the last of a non-empty set of places
Last(places) == CHOOSE k \in places : \A j \in places : j <= k

\* C29: the API token of the cache is unset or starts with eyJ, at the
\* start and after every call; a call leaves the token and its expiry as
\* they were unless one of its fetches was answered ok, not as HTML and
\* with a token that starts with eyJ, and then the token is that of the
\* last such fetch; and a call whose last fetch failed a check has raised.
C29_ApiTokenIsJwt ==
    /\ cache.api_token = NoToken
    /\ [][/\ cache'.api_token = NoToken \/ StartsWithJwtPrefix(cache'.api_token)
          /\ GoodFetches(net') = {} =>
                 /\ cache'.api_token = cache.api_token
                 /\ cache'.api_token_expiry = cache.api_token_expiry
          /\ (GoodFetches(net') # {} /\ net' # net) =>
                 cache'.api_token = net'[Last(GoodFetches(net'))].tok
          /\ (BadFetches(net') # {} /\ net' # net) =>
                 (Last(BadFetches(net')) = Len(net') => last'.exc # "none")]_vars

\* get_api_token was called with a token in the cache, its fetch was
\* answered with an HTML page, it raised and the token is still the old one
C29_Witness ==
    /\ last.op = "get_api_token"
    /\ last.exc = "HtmlReceived"
    /\ net # << >>
    /\ net[Len(net)].body = "text/html"
    /\ StartsWithJwtPrefix(net[Len(net)].tok)
    /\ cache.api_token # NoToken
    /\ cache.api_token # net[Len(net)].tok

\* the cache holds an access token and a publication URL
CachedTokens(c) == Truthy(c.access_token) /\ Truthy(c.publication_url)

\* C30: authenticate with an access token and a publication URL in the
\* cache first fetches the editing API token with that access token; when
\* that fetch succeeds it is the only request of the call, which returns
\* True, so nothing is sent to the portal and the portal code is not used;
\* a request to the portal is the first request of a call that found no
\* cached tokens, or the second request of a call whose fetch with the
\* cached tokens failed.
C30_CachedPathFirst ==
    [][last'.op = "authenticate" =>
          /\ CachedTokens(cache) =>
                 /\ net' # << >>
                 /\ net'[1].ep = "EditingApiToken"
                 /\ net'[1].bearer = cache.access_token
                 /\ 1 \in GoodFetches(net') =>
                        /\ Len(net') = 1
                        /\ last'.exc = "none"
                        /\ last'.flag
          /\ \A k \in DOMAIN net' :
                 net'[k].ep = "registration" =>
                     IF CachedTokens(cache)
                     THEN k = 2 /\ 1 \in BadFetches(net')
                     ELSE k = 1]_vars

\* authenticate was called with a portal code while the cache held tokens
\* from the file, the fetch with them succeeded, and the call returned True
\* after that one request
C30_Witness ==
    /\ last.op = "authenticate"
    /\ last.exc = "none"
    /\ last.flag
    /\ portal_code = "code"
    /\ Len(net) = 1
    /\ net[1].ep = "EditingApiToken"
    /\ net[1].bearer = "acc1"
    /\ cache.api_token = net[1].tok

\* the fetch with the cached tokens failed and the portal code was
\* exchanged next
C30_WitnessExchange ==
    /\ last.op = "authenticate"
    /\ Len(net) >= 2
    /\ net[1].ep = "EditingApiToken"
    /\ net[2].ep = "registration"


-----------------------------------------------------------------------------
(* The session token of the traditional mode, session.py:152-164, 217-244 *)

\* the places of the token requests of a log that were answered with a token
Granted(log) ==
    {k \in DOMAIN log : /\ log[k].ep = "auth/session"
                        /\ Ok(log[k].status)
                        /\ log[k].body # None}

\* the lifetime that came with a session token
GrantedFor(token) ==
    LET r == CHOOSE r \in SessionResponses : Ok(r.status) /\ r.sessionToken = token
    IN IF r.expiresIn = 0 THEN SESSION_EXPIRES_IN ELSE r.expiresIn

C31_WitnessRefused ==
    /\ last.op = "_request"
    /\ ~sess.auth_manager
    /\ last.exc = "AskDelphiAuthError"
    /\ Len(net) = 1
    /\ net[1].ep = "auth/session"
    /\ net[1].status = 500
    /\ sess.session_token = "st2"
    /\ sess.token_expiry < now


-----------------------------------------------------------------------------
(* The comment of a checkin, importer.py:129 and checkout.py:21-26 *)

\* the comment the earlier importer gives to every checkin
AuditComment == "Geautomatiseerde Digital Coach import"

\* The comment member of the checkin payload of the pending call:
\* _import_topic_recursive calls checkin(topic.id, topic_version_id), and
\* the second parameter of CheckoutService.checkin is the comment.
comment(m) == m.vid

\* C32: every checkin call of import_topics carries the fixed audit
\* comment, whatever the node and whatever topic version id create or
\* checkout returned.
C32_FixedComment ==
    (imp.status = "running" /\ imp.pc.op = "checkin") => comment(imp) = AuditComment


-----------------------------------------------------------------------------
(* The topic version id of the writes, importer.py:100-124 *)

\* the version ids a create and a checkout can answer with
CreateIds == {r.vid : r \in {a \in CreateAnswers : a.ok}}
CheckoutIds == {r.vid : r \in {a \in CheckoutAnswers : a.ok /\ Truthy(a.vid)}}

-----------------------------------------------------------------------------
(* The create payloads of a mapped tree: main.py maps the process and      *)
(* hands the root to import_topics, which builds one payload per topic it  *)
(* reaches, in the order of the heap (importer.py:57-79).                  *)

\* the topicId and parentTopicId members of the payload of the create call
create_payload(topic) ==
    [topicId |-> topic.id,
     parentTopicId |-> IF Truthy(topic.parent_id) THEN topic.parent_id ELSE Absent]

\* _import_topic_recursive builds the payload of the next topic
ImportCreatePayload ==
    /\ mapper.call = "map_process"
    /\ mapper.exc = "none"
    /\ LET sent == IF imp = NoImport THEN << >> ELSE imp.sent
       IN  /\ Len(sent) < Len(mapper.heap)
           /\ imp' = [status |-> "payloads",
                      sent |-> Append(sent, create_payload(mapper.heap[Len(sent) + 1]))]
    /\ UNCHANGED <<authVars, del, mapper, cfg>>

NextPayload == MapperMapProcess \/ ImportCreatePayload

SpecPayload == InitMapper /\ [][NextPayload]_vars

\* the payloads built so far
Payloads == IF imp = NoImport THEN << >> ELSE imp.sent

\* the object that has object k among its children
ParentOf(heap, k) ==
    CHOOSE p \in DOMAIN heap : \E i \in DOMAIN heap[p].children : heap[p].children[i] = k

\* the payload of every topic below the root names the id of its parent
ChildrenNameParent ==
    \A k \in DOMAIN Payloads :
        k # mapper.ret[1] =>
            Payloads[k].parentTopicId = mapper.heap[ParentOf(mapper.heap, k)].id

\* the payload of the root has no parentTopicId
RootNamesNone ==
    \A k \in DOMAIN Payloads : k = mapper.ret[1] => Payloads[k].parentTopicId = Absent

\* C34: the create payload of every node below the root of a mapped tree
\* has a parentTopicId equal to the id of the node's parent and the payload
\* of the root has none, for every id the document can give to the root,
\* a missing, null or empty one included.
C34_ParentTopicId == ChildrenNameParent /\ RootNamesNone

\* what holds instead: the root has no parentTopicId, a node whose parent
\* has a truthy id names it, and a node whose parent has a null or empty
\* id has no parentTopicId
C34_ParentTopicIdIfTruthy ==
    /\ RootNamesNone
    /\ \A k \in DOMAIN Payloads :
           k # mapper.ret[1] =>
               LET id == mapper.heap[ParentOf(mapper.heap, k)].id
               IN  Payloads[k].parentTopicId = IF Truthy(id) THEN id ELSE Absent

\* the payloads of a root without id and of its child were built
C34_WitnessDefaultId ==
    /\ Len(Payloads) >= 2
    /\ mapper.process.node.id = Absent
    /\ Payloads[2].parentTopicId = "dc-home"

\* the payload of the child of a root with an empty id was built
C34_WitnessEmptyId ==
    /\ Len(Payloads) >= 2
    /\ mapper.process.node.id = ""
    /\ Payloads[2].parentTopicId = Absent


-----------------------------------------------------------------------------
(* The earlier importer, src/importer/importer.py, on the session of       *)
(* src/askdelphi/session.py: it asks for a topic with GET, updates it with *)
(* PUT or creates it with POST, and brackets the part write by checkout    *)
(* and checkin unless SKIP_CHECKOUT_CHECKIN is set.  One step per call,    *)
(* the status of the answer chosen freely.                                 *)

\* The statuses a call can end with: _request raises AskDelphiAuthError for
\* every answer that is not ok (session.py:200-203), and 404 is what the
\* CMS answers to the GET of a topic it does not have.
EarlierAnswers(op) == IF op = "get" THEN {200, 404, 500} ELSE {200, 500}

\* the answer of a healthy CMS: a GET may find the topic or not
EarlierExpected(op, status) == Ok(status) \/ (op = "get" /\ status = 404)

\* the loop over root_topics or topic.children goes on: the next topic is
\* entered with its GET
EarlierNextTopic(m) ==
    LET n == NextTopic(m)
    IN  IF n.pc.op = "create" THEN [n EXCEPT !.pc.op = "get"] ELSE n

\* _update_parts and what follows it
earlier_update_parts(m) ==
    IF "content" \in Metadata(Topic(m))
    THEN [m EXCEPT !.pc = Call("update_part", m.pc.node, 0)]
    ELSE IF cfg.SKIP_CHECKOUT_CHECKIN THEN EarlierNextTopic(m)
    ELSE [m EXCEPT !.pc = Call("checkin", m.pc.node, 0)]

\* the topic exists: lines 75-90
earlier_stored(m) ==
    IF ~cfg.SKIP_CHECKOUT_CHECKIN
    THEN [m EXCEPT !.pc = Call("checkout", m.pc.node, 0)]
    ELSE earlier_update_parts(m)

\* _import_topic_recursive after the pending call ended with status
earlier_done(m, status) ==
    CASE m.pc.op = "get" ->
             IF Ok(status) THEN [m EXCEPT !.pc = Call("put", m.pc.node, 0)]
             ELSE [m EXCEPT !.pc = Call("post", m.pc.node, 0)]
      [] m.pc.op = "put" ->
             IF Ok(status) THEN earlier_stored(m)
             ELSE [m EXCEPT !.pc = Call("post", m.pc.node, 0)]
      [] m.pc.op = "post" ->
             IF Ok(status) THEN earlier_stored(m) ELSE Raised(m)
      [] m.pc.op = "checkout" ->
             IF Ok(status) THEN earlier_update_parts(m) ELSE Raised(m)
      [] m.pc.op = "update_part" ->
             IF ~Ok(status) THEN Raised(m)
             ELSE IF cfg.SKIP_CHECKOUT_CHECKIN THEN EarlierNextTopic(m)
             ELSE [m EXCEPT !.pc = Call("checkin", m.pc.node, 0)]
      [] OTHER ->
             IF Ok(status) THEN EarlierNextTopic(m) ELSE Raised(m)

InitEarlier ==
    /\ NoAuth
    /\ del = NoDelete
    /\ mapper = NoMapper
    /\ cfg \in Env
    /\ \E p \in Forests :
           imp = [status |-> "idle", parent |-> p, first |-> 0, stack |-> << >>,
                  pc |-> Nothing, vid |-> None, log |-> << >>, faults |-> 0]

EarlierImportTopics ==
    /\ imp.status = "idle"
    /\ imp' = EarlierNextTopic([imp EXCEPT !.status = "running",
                                           !.stack = << [node |-> Roots, idx |-> 0] >>])
    /\ UNCHANGED <<authVars, del, mapper, cfg>>

\* the pending call is made and answered; beyond MaxFaults only as expected
EarlierCall ==
    /\ imp.status = "running"
    /\ \E status \in EarlierAnswers(imp.pc.op) :
           /\ EarlierExpected(imp.pc.op, status) \/ imp.faults < MaxFaults
           /\ imp' = earlier_done(
                         [imp EXCEPT !.log = Append(@, [op |-> imp.pc.op,
                                                        node |-> imp.pc.node,
                                                        status |-> status]),
                                     !.faults = @ + (IF EarlierExpected(imp.pc.op, status)
                                                     THEN 0 ELSE 1)],
                         status)
    /\ UNCHANGED <<authVars, del, mapper, cfg>>

NextEarlier == EarlierImportTopics \/ EarlierCall

SpecEarlier == InitEarlier /\ [][NextEarlier]_vars

\* the calls op made for topic n that ended with one of statuses
Ended(op, n, statuses) ==
    {i \in DOMAIN Calls : /\ Calls[i].op = op
                          /\ Calls[i].node = n
                          /\ Calls[i].status \in statuses}

\* the calls op made for topic n
Made(op, n) == Ended(op, n, {200, 404, 500})

\* C35: a POST for a topic is made only after the GET for that topic was
\* answered not-found; for a topic whose GET succeeded no POST is made and
\* one PUT, no more; and no POST is made for a topic whose GET or PUT
\* failed for another reason.
C35_PostOnlyWhenNotFound ==
    \A n \in Nodes :
        /\ Made("post", n) # {} => Ended("get", n, {404}) # {}
        /\ Ended("get", n, {200}) # {} =>
               /\ Made("post", n) = {}
               /\ Cardinality(Made("put", n)) <= 1
               /\ (Made("put", n) = {} => imp.pc = Call("put", n, 0))
        /\ (Ended("get", n, {500}) # {} \/ Ended("put", n, {500}) # {}) =>
               Made("post", n) = {}

\* what holds instead: the POST for a topic is made exactly when its GET
\* or its PUT ended with an error of any kind
C35_PostAfterAnyError ==
    \A n \in Nodes :
        (Made("post", n) # {} \/ imp.pc = Call("post", n, 0))
            <=> (Ended("get", n, {404, 500}) # {} \/ Ended("put", n, {500}) # {})

\* a topic was found and its update refused, and a POST was made for it
C35_WitnessPutFailed ==
    \E n \in Nodes :
        /\ Ended("get", n, {200}) # {}
        /\ Ended("put", n, {500}) # {}
        /\ Made("post", n) # {}

\* the GET of a topic ended with a server error and a POST was made for it
C35_WitnessGetFailed ==
    \E n \in Nodes : Ended("get", n, {500}) # {} /\ Made("post", n) # {}


-----------------------------------------------------------------------------
(* The import against a CMS that answers every call successfully: the      *)
(* steps of SpecImport with no answer that is not ok.  Every call the      *)
(* importer makes is answered, so a running import always takes its next   *)
(* step.                                                                   *)

\* every call made so far succeeded
Healthy == \A i \in DOMAIN imp.log : imp.log[i].ok

NextHealthy ==
    \/ ImportTopics /\ Healthy'
    \/ ImportCreate /\ Healthy'
    \/ ImportCheckout /\ Healthy'
    \/ ImportUpdatePart /\ Healthy'
    \/ ImportUpdateMetadata /\ Healthy'
    \/ ImportAddRelation /\ Healthy'
    \/ ImportAddTag /\ Healthy'
    \/ ImportCheckin /\ Healthy'

SpecHealthy == InitImport /\ [][NextHealthy]_vars /\ WF_vars(NextHealthy)

\* topic n got one create, one checkout and one checkin call
OneOfEach(n) ==
    /\ Cardinality(CallsOf("create", n)) = 1
    /\ Cardinality(CallsOf("checkout", n)) = 1
    /\ Cardinality(CallsOf("checkin", n)) = 1

\* C36: against a CMS that answers every call successfully import_topics
\* returns, and when it has returned it has made one create call, one
\* checkout and one checkin for every topic of the tree and no call for
\* anything that is not a topic of the tree.
C36_HealthyImportCompletes ==
    /\ <>(imp.status = "returned")
    /\ [](imp.status = "returned" =>
              /\ \A n \in Nodes : OneOfEach(n)
              /\ \A i \in DOMAIN Calls : Calls[i].node \in Nodes)

\* an import of a tree with a grandchild has returned, every call answered
\* successfully
C36_Witness ==
    /\ imp.status = "returned"
    /\ Healthy
    /\ \E n \in Nodes : imp.parent[n] # Roots /\ imp.parent[imp.parent[n]] # Roots
    /\ \A n \in Nodes : OneOfEach(n)


-----------------------------------------------------------------------------
(* The topics held checked out during an import, importer.py:103-137 *)

\* the topics whose checkout succeeded and was not followed by a checkin
\* that succeeded
CheckedOut ==
    {n \in Nodes :
        \E i \in CallsOf("checkout", n) :
            /\ Calls[i].ok
            /\ ~\E j \in CallsOf("checkin", n) : j > i /\ Calls[j].ok}

\* C37: at every point of an import at most one topic is checked out, none
\* is when the checkout of a topic is about to be made (the checkin of the
\* topic before it has been made and has succeeded), and none is when
\* import_topics has returned.
C37_OneCheckedOut ==
    /\ Cardinality(CheckedOut) <= 1
    /\ (imp.status = "running" /\ imp.pc.op \in {"create", "checkout"}) => CheckedOut = {}
    /\ imp.status = "returned" => CheckedOut = {}
    /\ (imp.status = "running" /\ CheckedOut # {}) => CheckedOut = {imp.pc.node}

\* the third topic is checked out, the two before it having been checked
\* out and checked in
C37_Witness ==
    /\ imp.status = "running"
    /\ CheckedOut = {3}
    /\ \A n \in {1, 2} : CallsOf("checkout", n) # {} /\ CallsOf("checkin", n) # {}

\* an import has returned with every topic checked out once and none left
C37_WitnessReturned ==
    /\ imp.status = "returned"
    /\ \A n \in Nodes : CallsOf("checkout", n) # {}
    /\ CheckedOut = {}


-----------------------------------------------------------------------------
(* A topic without topic version id, importer.py:100-129 and 139-192 *)

\* the checkouts that succeeded and left the importer without a version id:
\* neither the create nor the checkout answered with one
Unversioned ==
    {i \in DOMAIN Calls : Calls[i].op = "checkout" /\ Calls[i].ok /\ ~Calls[i].versioned}

\* the call made after call i, or the pending one
After(i) ==
    IF i < Len(Calls) THEN [op |-> Calls[i + 1].op, node |-> Calls[i + 1].node]
    ELSE [op |-> imp.pc.op, node |-> imp.pc.node]

\* C38: when neither the create nor the checkout of a topic answered with
\* a topic version id, no part, metadata, relation or tag write is made for
\* the topic and no error is raised: the call after the checkout is the
\* checkin of the topic, and when that succeeded the import goes on with
\* the first child of the topic if it has one.
C38_NoVersionNoWrites ==
    \A i \in Unversioned :
        LET n == Calls[i].node
            children == Children(imp.parent, n)
        IN  /\ \A j \in DOMAIN Calls : Calls[j].node = n => Calls[j].op \notin Writes
            /\ After(i) = [op |-> "checkin", node |-> n]
            /\ (i < Len(Calls) /\ Calls[i + 1].ok /\ children # << >>) =>
                   After(i + 1) = [op |-> "create", node |-> children[1]]

\* a topic with content and with a child got no version id; it was checked
\* in without a write and its child was created
C38_Witness ==
    \E i \in Unversioned :
        /\ i + 2 <= Len(Calls)
        /\ HasContent(Calls[i].node)
        /\ Calls[i + 1].op = "checkin"
        /\ Calls[i + 1].ok
        /\ Calls[i + 2].op = "create"
        /\ imp.parent[Calls[i + 2].node] = Calls[i].node


-----------------------------------------------------------------------------
(* The cascading delete of the importer,                                   *)
(* DigitalCoachImporter.delete_topic_recursive (importer.py:194-234): it   *)
(* walks the TopicNode tree, fetching each child and calling itself for    *)
(* it, and then deletes the topic through                                  *)
(* TopicService.delete_topic_recursive with the ids of the children, which *)
(* walks the same children once more on what the CMS answers.  The frames  *)
(* of the importer are in del.outer, those of the service in del.stack.    *)

\* Control is in the loop over topic.children of the innermost frame of
\* the importer: the next child is fetched, or after the last one the
\* service is called for the topic
importer_delete_loop(m) ==
    LET depth == Len(m.outer)
        top == m.outer[depth]
        children == Children(m.parent, top.node)
    IN  IF top.idx < Len(children)
        THEN [m EXCEPT !.outer[depth].idx = top.idx + 1,
                       !.pc = Call("get", children[top.idx + 1], 0)]
        ELSE delete_topic_recursive(m, top.node, children)

\* a frame of the importer has returned, into the loop of its caller or
\* out of the outermost call
importer_delete_return(m) ==
    IF m.outer = << >>
    THEN [m EXCEPT !.status = "returned", !.pc = Nothing]
    ELSE importer_delete_loop(m)

\* delete_topic_recursive of the importer is entered for topic n, with or
\* without a version id
importer_delete_topic_recursive(m, n, topic_version_id) ==
    IF ~Truthy(topic_version_id) THEN importer_delete_return(m)
    ELSE importer_delete_loop([m EXCEPT !.outer = Append(@, [node |-> n, idx |-> 0])])

\* The pending call has answered.  Inside the service it is the service
\* that goes on, and when its outermost frame returns or raises, the frame
\* of the importer that called it returns, the exception caught; a child
\* fetched by the importer itself is entered if the answer has a version
\* id and passed over if not.
importer_delete_answered(m, r) ==
    IF m.stack = << >>
    THEN IF r.kind = "topic"
         THEN importer_delete_topic_recursive(m, m.pc.node, "v1")
         ELSE importer_delete_loop(m)
    ELSE LET d == IF m.pc.op = "get" THEN get_topic_done(m, r)
                  ELSE delete_topic_done(m, r)
         IN  IF d.status = "running" THEN d
             ELSE importer_delete_return(
                      [d EXCEPT !.status = "running",
                                !.outer = SubSeq(@, 1, Len(@) - 1)])

\* a caller deletes a topic of the tree
ImporterDeleteTopicRecursive ==
    /\ del.status = "idle"
    /\ \E n \in Nodes, topic_version_id \in {None, "v1"} :
           del' = importer_delete_topic_recursive(
                      [outer |-> << >>, version |-> topic_version_id]
                          @@ [del EXCEPT !.status = "running", !.topic_id = n],
                      n, topic_version_id)
    /\ UNCHANGED <<authVars, imp, mapper, cfg>>

\* the pending GET or DELETE is made and answered; beyond MaxFaults only
\* as a CMS answers that keeps every topic
ImporterDeleteCall ==
    /\ del.status = "running"
    /\ \E r \in IF del.pc.op = "get" THEN GetAnswers(del.parent, del.pc.node)
                ELSE DeleteAnswers :
           /\ ExpectedAnswer(del.parent, del.pc.op, del.pc.node, r)
                  \/ del.faults < MaxFaults
           /\ del' = importer_delete_answered(LoggedAnswer(del, r), r)
    /\ UNCHANGED <<authVars, imp, mapper, cfg>>

NextImporterDelete == ImporterDeleteTopicRecursive \/ ImporterDeleteCall

SpecImporterDelete == InitDelete /\ [][NextImporterDelete]_vars

\* the DELETE calls made for topic n
Deletes(n) == {i \in DOMAIN del.log : del.log[i].op = "delete" /\ del.log[i].node = n}

\* the call was made without a version id
Unversioned39 == del.status # "idle" /\ ~Truthy(del.version)

\* C39: delete_topic_recursive of the importer makes at most one DELETE
\* call for each topic of the tree, whatever the CMS answers to the GET of
\* a topic it has deleted; called without a version id it makes no call;
\* and it never raises.
C39_OneDeletePerTopic ==
    /\ \A n \in Nodes : Cardinality(Deletes(n)) <= 1
    /\ Unversioned39 => del.log = << >> /\ del.status = "returned"
    /\ del.status # "raised"

\* what holds of the calls: none without a version id, never an error, and
\* every DELETE is for a topic of the tree below the topic given
C39_NoCallWithoutVersion ==
    /\ Unversioned39 => del.log = << >> /\ del.status = "returned"
    /\ del.status # "raised"
    /\ del.status # "idle" =>
           \A i \in DOMAIN del.log : del.log[i].node \in Subtree(del.parent, del.topic_id)

\* a topic with a child was deleted with every call answered as by a CMS
\* that keeps its topics, and the child got two DELETE calls
C39_WitnessTwice ==
    /\ del.status = "returned"
    /\ del.faults = 0
    /\ \E n \in Nodes : Cardinality(Deletes(n)) = 2 /\ del.parent[n] = del.topic_id

\* the DELETE of the topic given failed and the call returned
C39_WitnessRootFailed ==
    /\ del.status = "returned"
    /\ del.log # << >>
    /\ del.log[Len(del.log)] = [op |-> "delete", node |-> del.topic_id,
                                kind |-> "raise", children |-> << >>]


-----------------------------------------------------------------------------
(* Credentials after a failed exchange or refresh, auth.py:359-393, 571-598 *)

\* the first request of the call was a portal-code exchange whose answer
\* lacks accessToken or url
ExchangeIncomplete(l, log) ==
    /\ l.op = "authenticate"
    /\ log # << >>
    /\ log[1].ep = "registration"
    /\ log[1].status = 200
    /\ ~Truthy(log[1].data.accessToken) \/ log[1].data.url = NoUrl

\* the call was a token refresh that was not answered ok
RefreshRefused(l, log) ==
    /\ l.op = "_refresh_tokens"
    /\ log # << >>
    /\ log[1].ep = "refresh"
    /\ log[1].status # 200

\* a request of the log was an exchange or a refresh that succeeded
Renewed(log) ==
    \E k \in DOMAIN log :
        /\ log[k].status = 200
        /\ \/ log[k].ep = "refresh"
           \/ /\ log[k].ep = "registration"
              /\ Truthy(log[k].data.accessToken)
              /\ log[k].data.url # NoUrl

\* the three credentials of a cache
Credentials(c) == <<c.access_token, c.refresh_token, c.publication_url>>

\* C40: a call whose portal-code exchange is answered without accessToken
\* or without url, or whose token refresh is not answered ok, leaves
\* access_token, refresh_token and publication_url of the cache and the
\* cache file as they were; and a call changes the cache file only if an
\* exchange or a refresh in it succeeded.
C40_FailureKeepsCredentials ==
    [][/\ (ExchangeIncomplete(last', net') \/ RefreshRefused(last', net')) =>
              /\ Credentials(cache') = Credentials(cache)
              /\ cache_file' = cache_file
       /\ cache_file' # cache_file => Renewed(net')]_vars

\* what holds instead: such a call leaves the cache file as it was, a
\* refused refresh leaves the credentials as they were, and an incomplete
\* exchange leaves in the cache what the answer carried
C40_FailureKeepsFile ==
    [][/\ (ExchangeIncomplete(last', net') \/ RefreshRefused(last', net')) =>
              cache_file' = cache_file
       /\ RefreshRefused(last', net') => Credentials(cache') = Credentials(cache)
       /\ ExchangeIncomplete(last', net') =>
              /\ cache'.access_token = net'[1].data.accessToken
              /\ cache'.refresh_token = net'[1].data.refreshToken
       /\ cache_file' # cache_file => Renewed(net')]_vars

\* an exchange answered without accessToken has raised and the cache has
\* lost its access token while the file still holds one
C40_WitnessIncomplete ==
    /\ ExchangeIncomplete(last, net)
    /\ last.exc = "NoAccessTokenInResponse"
    /\ cache.access_token = None
    /\ cache.refresh_token = "ref1"
    /\ cache_file.state = "object"
    /\ Truthy(get(cache_file.data.access_token))

\* a refresh was refused and the cache holds the tokens it held
C40_WitnessRefused ==
    /\ RefreshRefused(last, net)
    /\ last.exc = "RefreshFailed"
    /\ cache.access_token = "acc1"

=========================================================================
